---- MODULE Spec2Model ----
(***************************************************************************)
(* A model of the media synthesis pipeline of StoryGen: the subtitle       *)
(* timing engine, the PCM decoder and WAV encoder, the client-side encode  *)
(* pipeline, the playback controller and the remote encode client.         *)
(*                                                                         *)
(* Each component has its own specification (SpecSubtitles, SpecPcm, ...)  *)
(* over its own variables; the variables of the other components stay at   *)
(* their idle values.                                                      *)
(***************************************************************************)
EXTENDS Integers, Sequences, FiniteSets, TLC

VARIABLES
    \* ---- subtitle timing engine (createSubtitles) ----
    fullText,       \* argument fullText: a sequence of characters
    duration,       \* argument duration, in units of 1/FixedGapDen second
    subtitles,      \* the returned SubtitleChunk[] (times scaled, see TimeScale)
    subPc,          \* "idle" | "ready" | "returned"
    \* ---- PCM decoder and WAV encoder (decodeAudio, audioBufferToWav) ----
    pcmSource,      \* the 16-bit samples the payload was made from
    pcmBytes,       \* the payload after atob: a sequence of bytes
    audioBuf,       \* the AudioBuffer decodeAudio returned, or NoBuffer
    wavOut,         \* the WAV file audioBufferToWav returned, or NoWav
    pcmPc,          \* "idle" | "ready" | "decoded" | "decodeFailed" | "encoded"
    \* ---- playback controller (ProjectWorkspace: loadAudio, togglePlayback) ----
    audioBuffer,    \* the duration of the decoded buffer in clock ticks, 0 for null
    isPlaying,      \* React state isPlaying
    sourceNodeRef,  \* sourceNodeRef.current: a source id, 0 for null
    startTimeRef,   \* startTimeRef.current
    pausedAtRef,    \* pausedAtRef.current
    ctxTime,        \* audioContextRef.current.currentTime, in clock ticks
    sources,        \* the buffer sources created so far: id -> record
    pendingEnded,   \* sources whose 'ended' event is queued and not yet dispatched
    playThrew,      \* a call of togglePlayback ended in an exception
    toggleLog,      \* the calls of togglePlayback so far: what each did
    \* ---- client-side encode pipeline (generateVideoBlob) ----
    promise,        \* the returned promise: "none" | "pending" | "resolved" | "rejected"
    settleCalls,    \* calls of resolve or reject so far
    blobType,       \* the declared type of the blob the promise resolved with
    imgState,       \* "none" | "loading" | "loaded" | "error"
    audioCtxState,  \* the AudioContext of startRecording: "none" | "running" | "closed"
    vidDuration,    \* audioBuffer.duration, in ticks of half a second
    vidClock,       \* audioCtx.currentTime - startTime, in ticks of half a second
    vidSource,      \* the buffer source: "none" | "playing" | "finished" | "ended"
    recorder,       \* MediaRecorder.state: "none" | "recording" | "inactive"
    recorderMime,   \* the mimeType the recorder was constructed with
    dataEvent,      \* the recorder's final 'dataavailable' event is queued
    stopEvent,      \* the recorder's 'stop' event is queued
    chunks,         \* chunks.length: the data blobs collected so far
    lastFrameAt,    \* the currentTime of the last frame drawn, -1 for none
    stopCalls,      \* calls of recorder.stop() so far
    rafPending,     \* a frame callback is scheduled (animationFrameId is live)
    vidThrew,       \* a handler ended in an uncaught exception
    \* ---- remote encode client (renderVideoViaServer) ----
    srvPc,          \* "idle" | "ready" | "fetching" | "responded" | "done"
    srvSubtitles,   \* subtitlesText is not null
    srvSrt,         \* srtContent was generated
    srvConnection,  \* "none" | "established" | "refused"
    srvResponseOk,  \* response.ok
    srvBody,        \* what reading the response body gives
    srvOutcome,     \* how the call ended: a returned value or a thrown error
    \* ---- frame compositor (wrapText) ----
    wrapInput,      \* argument text: a sequence of characters
    wrapMaxWidth,   \* argument maxWidth, in the units of measureText
    wrapLines,      \* the lines returned
    wrapPc,         \* "idle" | "ready" | "done"
    \* ---- local export (App, ProjectWorkspace.handleExportVideoCanvas) ----
    expMounted,      \* a ProjectWorkspace is mounted (view is 'workspace')
    expInstance,     \* which mount of the component this is: 0 before the first
    expAudioLoaded,  \* audioBuffer of the mounted component is not null
    expLoadingVideo, \* loadingState.video of the mounted component
    expRenders,      \* the generateVideoBlob calls made: the mount that made each, and its state
    \* ---- render server (POST /render) ----
    rsTempDir,      \* TEMP_DIR exists
    rsJobs,         \* per request: its body, the handler's position, the responses sent, the encoder's run, the cleanup timer
    rsDirs,         \* the job directories that exist under TEMP_DIR
    \* ---- cost estimate (calculateCost) ----
    costUsage,      \* argument usage: prompt and candidate tokens of the story and of the audio
    costModels,     \* argument models: the model names
    costHasVideo,   \* argument hasVideo
    costBy,         \* the result of calculateCost for each imageSource it was called with, -1 before the call
    \* ---- generateSRTString (mediaUtils.ts 167-182) ----
    srtText,        \* the fullText argument
    srtDuration,    \* the duration argument, in units of 0.05 s
    srtOut,         \* the string returned, a sequence of characters
    srtPc,          \* "idle" | "ready" | "returned"
    \* ---- asset generation and handleUpdateProject (ProjectWorkspace.tsx 455-483, App.tsx 92-95) ----
    updCurrentProject, \* App: currentProject, the project prop of the workspace
    updProjects,       \* App: the entry of the project in projects
    updLoadingState,   \* ProjectWorkspace: loadingState.audio and loadingState.image
    updCalls           \* the calls of handleGenerateAudio / handleGenerateImage so far

subVars == <<fullText, duration, subtitles, subPc>>
pcmVars == <<pcmSource, pcmBytes, audioBuf, wavOut, pcmPc>>

playVars == <<audioBuffer, isPlaying, sourceNodeRef, startTimeRef, pausedAtRef,
              ctxTime, sources, pendingEnded, playThrew, toggleLog>>

vidVars == <<promise, settleCalls, blobType, imgState, audioCtxState, vidDuration,
             vidClock, vidSource, recorder, recorderMime, dataEvent, stopEvent,
             chunks, lastFrameAt, stopCalls, rafPending, vidThrew>>

srvVars == <<srvPc, srvSubtitles, srvSrt, srvConnection, srvResponseOk, srvBody,
             srvOutcome>>

wrapVars == <<wrapInput, wrapMaxWidth, wrapLines, wrapPc>>

expVars == <<expMounted, expInstance, expAudioLoaded, expLoadingVideo, expRenders>>

rsVars == <<rsTempDir, rsJobs, rsDirs>>

costVars == <<costUsage, costModels, costHasVideo, costBy>>

srtVars == <<srtText, srtDuration, srtOut, srtPc>>

updVars == <<updCurrentProject, updProjects, updLoadingState, updCalls>>

vars == <<subVars, pcmVars, playVars, vidVars, srvVars, wrapVars, expVars, rsVars, costVars, srtVars, updVars>>

\* What the actions of one component leave unchanged: the state of the others.
exceptSubVars == <<pcmVars, playVars, vidVars, srvVars, wrapVars, expVars, rsVars, costVars, srtVars, updVars>>
exceptPcmVars == <<subVars, playVars, vidVars, srvVars, wrapVars, expVars, rsVars, costVars, srtVars, updVars>>
exceptPlayVars == <<subVars, pcmVars, vidVars, srvVars, wrapVars, expVars, rsVars, costVars, srtVars, updVars>>
exceptVidVars == <<subVars, pcmVars, playVars, srvVars, wrapVars, expVars, rsVars, costVars, srtVars, updVars>>
exceptSrvVars == <<subVars, pcmVars, playVars, vidVars, wrapVars, expVars, rsVars, costVars, srtVars, updVars>>
exceptWrapVars == <<subVars, pcmVars, playVars, vidVars, srvVars, expVars, rsVars, costVars, srtVars, updVars>>
exceptExpVars == <<subVars, pcmVars, playVars, vidVars, srvVars, wrapVars, rsVars, costVars, srtVars, updVars>>
exceptRsVars == <<subVars, pcmVars, playVars, vidVars, srvVars, wrapVars, expVars, costVars, srtVars, updVars>>
exceptCostVars == <<subVars, pcmVars, playVars, vidVars, srvVars, wrapVars, expVars, rsVars, srtVars, updVars>>
exceptSrtVars == <<subVars, pcmVars, playVars, vidVars, srvVars, wrapVars, expVars, rsVars, costVars, updVars>>
exceptUpdVars == <<subVars, pcmVars, playVars, vidVars, srvVars, wrapVars, expVars, rsVars, costVars, srtVars>>

(***************************************************************************)
(* Bounds of the model.                                                    *)
(***************************************************************************)
MaxLen == 4        \* longest narration text, in characters
MaxTicks == 3      \* sub-second durations 0..MaxTicks (units of 0.05 s)
MaxSecs == 2       \* whole-second durations 1..MaxSecs
MaxSamples == 2    \* longest PCM payload, in samples
MaxBufferTicks == 3   \* longest narration buffer of the playback controller
MaxClock == 5      \* the audio clock of the playback controller stops here
MaxToggles == 4    \* calls of togglePlayback in one run
MaxVideoTicks == 3 \* longest audio buffer of a render, in ticks of half a second
MaxMsgLen == 3     \* longest error message of the render service, in words
MaxChannels == 2   \* most channels of a buffer given to audioBufferToWav
MaxFrames == 2     \* most frames of such a buffer
MaxWavSamples == 4 \* most samples (channels times frames) of such a buffer
MaxMounts == 3     \* times the project workspace is opened
MaxRenders == 3    \* local renders started
MaxJobs == 2       \* requests the render server receives
MaxTokens == 1      \* most tokens in a usage counter
MaxGenerations == 4 \* asset generations started
MaxWrapLen == 5    \* longest subtitle text given to wrapText, in characters
MaxWrapWidth == 4  \* largest maxWidth given to wrapText
WideWidth == 5     \* measured width of the wide character "W"

(***************************************************************************)
(* Small helpers on sequences and integers.                                *)
(***************************************************************************)
Last(s) == s[Len(s)]

RECURSIVE SeqSum(_)
SeqSum(s) == IF s = <<>> THEN 0 ELSE s[1] + SeqSum(Tail(s))

Range(s) == {s[i] : i \in 1..Len(s)}

RECURSIVE SeqsUpTo(_, _)
SeqsUpTo(S, n) ==
    IF n = 0 THEN {<<>>}
    ELSE LET shorter == SeqsUpTo(S, n - 1)
         IN  shorter \cup {Append(s, c) : s \in {t \in shorter : Len(t) = n - 1}, c \in S}

(***************************************************************************)
(* createSubtitles (mediaUtils.ts 122-162).                                *)
(*                                                                         *)
(* A text is a sequence of one-character strings.  Times are exact         *)
(* rationals: duration d stands for d/FixedGapDen seconds, and every start *)
(* and end of a returned chunk is a numerator over TimeScale(fullText) =   *)
(* FixedGapDen * totalWeight, so that secondsPerUnit = duration /          *)
(* totalWeight never has to be rounded.                                    *)
(***************************************************************************)
SentenceEnd == {".", "?", "!"}          \* /[.?!]$/
ClauseEnd == {",", ";"}                  \* /[,;]$/
Delimiters == SentenceEnd \cup ClauseEnd \cup {"\n"}   \* [.?!,;\n]
Whitespace == {" ", "\n"}                \* what String.prototype.trim strips
Alphabet == {"a", " ", ".", ",", "\n"}   \* the characters the model draws texts from

CHAR_WEIGHT == 1
COMMA_WEIGHT == 6
END_WEIGHT == 15
GapNum == 2          \* the factor 0.4 of line 153 is GapNum / GapDen
GapDen == 5
FixedGapDen == 20    \* the fixed gap 0.05 of line 156 is 1 / FixedGapDen

\* The length of the longest prefix of s, from position i on, whose characters
\* are all in (inSet = TRUE) or all outside (inSet = FALSE) the set S.
RECURSIVE RunEnd(_, _, _, _)
RunEnd(s, i, S, inSet) ==
    IF i > Len(s) \/ ((s[i] \in S) # inSet) THEN i
    ELSE RunEnd(s, i + 1, S, inSet)

\* fullText.match(/[^.?!,;\n]+[.?!,;\n]*/g): all matches, left to right, each
\* a greedy run of non-delimiters followed by a greedy run of delimiters.
RECURSIVE MatchAll(_, _)
MatchAll(s, i) ==
    IF i > Len(s) THEN <<>>
    ELSE IF s[i] \in Delimiters THEN MatchAll(s, i + 1)
    ELSE LET j == RunEnd(s, i, Delimiters, FALSE)
             k == RunEnd(s, j, Delimiters, TRUE)
         IN  <<SubSeq(s, i, k - 1)>> \o MatchAll(s, k)

\* fullText.match(regex) || [fullText]: match returns null when nothing matches.
RawSegments(s) ==
    LET m == MatchAll(s, 1) IN IF m = <<>> THEN <<s>> ELSE m

RECURSIVE TrimLeft(_)
TrimLeft(s) ==
    IF s # <<>> /\ s[1] \in Whitespace THEN TrimLeft(Tail(s)) ELSE s

RECURSIVE TrimRight(_)
TrimRight(s) ==
    IF s # <<>> /\ Last(s) \in Whitespace THEN TrimRight(SubSeq(s, 1, Len(s) - 1)) ELSE s

Trim(s) == TrimRight(TrimLeft(s))

\* rawSegments.map(s => s.trim()).filter(s => s.length > 0)
Segments(s) ==
    LET raw == RawSegments(s)
        trimmed == [i \in 1..Len(raw) |-> Trim(raw[i])]
    IN  SelectSeq(trimmed, LAMBDA t : Len(t) > 0)

\* text.match(/[.?!]$/) || text.includes('\n')
EndsSentence(seg) == Last(seg) \in SentenceEnd \/ "\n" \in Range(seg)

getSegmentWeight(seg) ==
    Len(seg) * CHAR_WEIGHT
    + (IF Last(seg) \in ClauseEnd THEN COMMA_WEIGHT
       ELSE IF EndsSentence(seg) THEN END_WEIGHT
       ELSE 0)

totalWeight(s) ==
    LET segs == Segments(s)
    IN  SeqSum([i \in 1..Len(segs) |-> getSegmentWeight(segs[i])])

\* The common denominator of the times of the chunks of a text.
TimeScale(s) == FixedGapDen * totalWeight(s)

\* GapScaled with the sign of the gap reversed (visualEnd + gap).
GapScaled_Negated(seg, d, W) ==
    IF EndsSentence(seg) THEN 0 - ((END_WEIGHT * d * GapNum) \div GapDen)
    ELSE 0 - W

\* The trailing gap of a segment, scaled by TimeScale: END_WEIGHT *
\* secondsPerUnit * 0.4 after a sentence end, the fixed 0.05 s otherwise.
GapScaled(seg, d, W) ==
    IF EndsSentence(seg) THEN (END_WEIGHT * d * GapNum) \div GapDen
    ELSE W

\* segments.map(...): currentTime runs over the full segment durations.
createSubtitles(s, d) ==
    LET segs == Segments(s)
        W == totalWeight(s)
        w(i) == getSegmentWeight(segs[i])
        startOf(i) == d * SeqSum([j \in 1..(i - 1) |-> w(j)])
    IN  [i \in 1..Len(segs) |->
            [text |-> segs[i],
             start |-> startOf(i),
             end |-> startOf(i) + w(i) * d - GapScaled(segs[i], d, W)]]

(***************************************************************************)
(* The subtitle engine as a state machine: a call with some text and       *)
(* duration, and its return.                                               *)
(***************************************************************************)
Texts == SeqsUpTo(Alphabet, MaxLen)
Durations == (0..MaxTicks) \cup {FixedGapDen * k : k \in 1..MaxSecs}

SubIdle ==
    /\ fullText = <<>>
    /\ duration = 0
    /\ subtitles = <<>>
    /\ subPc = "idle"

SubInit ==
    /\ fullText \in Texts
    /\ duration \in Durations
    /\ subtitles = <<>>
    /\ subPc = "ready"

CallCreateSubtitles ==
    /\ subPc = "ready"
    /\ subtitles' = createSubtitles(fullText, duration)
    /\ subPc' = "returned"
    /\ UNCHANGED <<fullText, duration>>
    /\ UNCHANGED exceptSubVars

SubNext == CallCreateSubtitles


(***************************************************************************)
(* decodeAudio, raw PCM path (mediaUtils.ts 7-36) and audioBufferToWav     *)
(* (mediaUtils.ts 41-91).                                                  *)
(*                                                                         *)
(* A float sample is an exact rational: the integer n stands for the       *)
(* Float32 value n / PcmScale, which is exact for every 16-bit n.          *)
(***************************************************************************)
PcmScale == 32768        \* int16Data[i] / 32768.0
SAMPLE_RATE == 24000     \* const sampleRate = 24000
NUM_CHANNELS == 1        \* const numChannels = 1
NegScale == 32768        \* sample * 0x8000
PosScale == 32767        \* sample * 0x7FFF
WavHeaderBytes == 44     \* buffer.length * numOfChan * 2 + 44
Int16Min == -32768
Int16Max == 32767
Uint16Mod == 65536
ByteMod == 256

NoBuffer == [ok |-> FALSE]
NoWav == [ok |-> FALSE]

\* Integer division rounding toward zero (the truncation of ToInt16).
TruncDiv(a, b) == IF a >= 0 THEN a \div b ELSE 0 - ((0 - a) \div b)

\* One element of new Int16Array(bytes.buffer): two bytes, little-endian
\* on every platform the browser runs on, read as a signed 16-bit integer.
Int16At(bytes, i) ==
    LET u == bytes[2 * i - 1] + ByteMod * bytes[2 * i]
    IN  IF u > Int16Max THEN u - Uint16Mod ELSE u

\* decodeAudio: new Int16Array(bytes.buffer) throws a RangeError for an odd
\* byte length, and createBuffer throws NotSupportedError for length 0.
decodeAudio(bytes) ==
    IF Len(bytes) % 2 # 0 \/ Len(bytes) = 0 THEN NoBuffer
    ELSE [ok |-> TRUE,
          numberOfChannels |-> NUM_CHANNELS,
          length |-> Len(bytes) \div 2,
          sampleRate |-> SAMPLE_RATE,
          channels |-> <<[i \in 1..(Len(bytes) \div 2) |-> Int16At(bytes, i)]>>]

\* Math.max(-1, x) alone: no upper clamp.
Clamp_LowerOnly(n) == IF n < 0 - PcmScale THEN 0 - PcmScale ELSE n

\* Math.max(-1, Math.min(1, x)) on numerators over PcmScale.
Clamp(n) == IF n < 0 - PcmScale THEN 0 - PcmScale
            ELSE IF n > PcmScale THEN PcmScale ELSE n

\* sample < 0 ? sample * 0x8000 : sample * 0x7FFF, then the ToInt16 of
\* setInt16: truncate toward zero and wrap modulo 2^16.
Quantize(n) ==
    LET c == Clamp(n)
        scaled == IF c < 0 THEN TruncDiv(c * NegScale, PcmScale)
                  ELSE TruncDiv(c * PosScale, PcmScale)
    IN  scaled % Uint16Mod

\* view.setInt16(offset, sample) without the littleEndian flag.
SetInt16_BigEndian(u) == <<u \div ByteMod, u % ByteMod>>

\* view.setInt16(offset, sample, true): the two bytes of the unsigned image u.
SetInt16(u) == <<u % ByteMod, u \div ByteMod>>

\* The sample bytes channel after channel, each channel frame by frame.
RECURSIVE InterleavedData_Planar(_, _, _)
InterleavedData_Planar(buffer, pos, ch) ==
    IF ch > buffer.numberOfChannels THEN <<>>
    ELSE IF pos > buffer.length THEN InterleavedData_Planar(buffer, 1, ch + 1)
    ELSE <<Quantize(buffer.channels[ch][pos]) % ByteMod,
           Quantize(buffer.channels[ch][pos]) \div ByteMod>>
         \o InterleavedData_Planar(buffer, pos + 1, ch)

\* The interleaved sample bytes: frame by frame, channel by channel.
RECURSIVE InterleavedData(_, _, _)
InterleavedData(buffer, pos, ch) ==
    IF pos > buffer.length THEN <<>>
    ELSE IF ch > buffer.numberOfChannels THEN InterleavedData(buffer, pos + 1, 1)
    ELSE SetInt16(Quantize(buffer.channels[ch][pos]))
         \o InterleavedData(buffer, pos, ch + 1)

audioBufferToWav(buffer) ==
    LET dataBytes == buffer.length * buffer.numberOfChannels * 2
    IN  [ok |-> TRUE,
         byteLength |-> dataBytes + WavHeaderBytes,
         riffSize |-> 36 + dataBytes,
         fmtSize |-> 16,
         formatTag |-> 1,
         numChannels |-> buffer.numberOfChannels,
         sampleRate |-> buffer.sampleRate,
         byteRate |-> buffer.sampleRate * 2 * buffer.numberOfChannels,
         blockAlign |-> buffer.numberOfChannels * 2,
         bitsPerSample |-> 16,
         dataSize |-> dataBytes,
         data |-> InterleavedData(buffer, 1, 1)]

(***************************************************************************)
(* The decoder and encoder as a state machine: a payload is made from      *)
(* 16-bit samples (little-endian, optionally with a stray trailing byte),  *)
(* decoded, and the decoded buffer encoded again.                          *)
(***************************************************************************)
Int16 == Int16Min..Int16Max
BoundarySamples == {Int16Min, Int16Min + 1, -1, 0, 1, Int16Max}
StrayBytes == {0, 255}

\* The payload of a fixture: each sample as two little-endian bytes.
RECURSIVE PayloadOf(_)
PayloadOf(samples) ==
    IF samples = <<>> THEN <<>>
    ELSE LET u == samples[1] % Uint16Mod
         IN  <<u % ByteMod, u \div ByteMod>> \o PayloadOf(Tail(samples))

\* The 16-bit samples of a WAV file's data section, read little-endian.
WavSamples(wav) == [i \in 1..(Len(wav.data) \div 2) |-> Int16At(wav.data, i)]

PcmIdle ==
    /\ pcmSource = <<>>
    /\ pcmBytes = <<>>
    /\ audioBuf = NoBuffer
    /\ wavOut = NoWav
    /\ pcmPc = "idle"

PcmInit ==
    /\ pcmSource \in SeqsUpTo(BoundarySamples, MaxSamples) \cup {<<v>> : v \in Int16}
    /\ \/ pcmBytes = PayloadOf(pcmSource)
       \/ /\ pcmSource \in SeqsUpTo(BoundarySamples, MaxSamples)
          /\ \E b \in StrayBytes : pcmBytes = Append(PayloadOf(pcmSource), b)
    /\ audioBuf = NoBuffer
    /\ wavOut = NoWav
    /\ pcmPc = "ready"

\* await decodeAudio(base64, ctx) returned a buffer.
DecodeReturns ==
    /\ pcmPc = "ready"
    /\ decodeAudio(pcmBytes).ok
    /\ audioBuf' = decodeAudio(pcmBytes)
    /\ pcmPc' = "decoded"
    /\ UNCHANGED <<pcmSource, pcmBytes, wavOut>>
    /\ UNCHANGED exceptPcmVars

\* await decodeAudio(base64, ctx) threw.
DecodeThrows ==
    /\ pcmPc = "ready"
    /\ ~decodeAudio(pcmBytes).ok
    /\ pcmPc' = "decodeFailed"
    /\ UNCHANGED <<pcmSource, pcmBytes, audioBuf, wavOut>>
    /\ UNCHANGED exceptPcmVars

EncodeWav ==
    /\ pcmPc = "decoded"
    /\ wavOut' = audioBufferToWav(audioBuf)
    /\ pcmPc' = "encoded"
    /\ UNCHANGED <<pcmSource, pcmBytes, audioBuf>>
    /\ UNCHANGED exceptPcmVars

PcmNext == DecodeReturns \/ DecodeThrows \/ EncodeWav

\* audioBufferToWav on any buffer of the Web Audio API: one or more
\* channels of equal length, samples inside and outside [-1, 1] (numerators
\* over PcmScale).
FloatSamples == {0 - 2 * PcmScale, 0 - PcmScale - 1, 0 - PcmScale, -1, 0, 1,
                 PcmScale, PcmScale + 1, 2 * PcmScale}

WavBuffers ==
    UNION {{[ok |-> TRUE,
             numberOfChannels |-> c,
             length |-> n,
             sampleRate |-> SAMPLE_RATE,
             channels |-> chans] : chans \in [1..c -> [1..n -> FloatSamples]]} :
           <<c, n>> \in {cn \in (1..MaxChannels) \X (1..MaxFrames) :
                            cn[1] * cn[2] <= MaxWavSamples}}

WavInit ==
    /\ pcmSource = <<>>
    /\ pcmBytes = <<>>
    /\ audioBuf \in WavBuffers
    /\ wavOut = NoWav
    /\ pcmPc = "decoded"

WavNext == EncodeWav

(***************************************************************************)
(* The playback controller (ProjectWorkspace.tsx: the load effect 398-415  *)
(* and togglePlayback 542-560; StoryResult has the same togglePlayback).   *)
(*                                                                         *)
(* Time is the audio clock in ticks.  A buffer source is a record: it      *)
(* plays from the clock time startedAt at buffer offset offset, and is     *)
(* "playing" until it is stopped or reaches the end of the buffer; then    *)
(* its 'ended' event is queued, and dispatched later as a task of its own. *)
(* The audio context is running: the resume() of line 544 is not needed.   *)
(***************************************************************************)
SourceIds == 1..MaxToggles

NoSource == [state |-> "none", offset |-> 0, startedAt |-> 0]

\* The state of a source started at clock time t at buffer offset o: a source
\* started at or past the end of its buffer has nothing to play.
StartedSource(o, t) ==
    [state |-> IF o >= audioBuffer THEN "finished" ELSE "playing",
     offset |-> o, startedAt |-> t]

\* The clock time at which a playing source reaches the end of the buffer.
EndTime(src) == src.startedAt + (audioBuffer - src.offset)

PlayIdle ==
    /\ audioBuffer = 0
    /\ isPlaying = FALSE
    /\ sourceNodeRef = 0
    /\ startTimeRef = 0
    /\ pausedAtRef = 0
    /\ ctxTime = 0
    /\ sources = [i \in SourceIds |-> NoSource]
    /\ pendingEnded = {}
    /\ playThrew = FALSE
    /\ toggleLog = <<>>

\* The component after mount: the refs and the state at their initial values,
\* the buffer not yet decoded.
PlayInit == PlayIdle

\* loadAudio: decodeAudio resolved and setAudioBuffer(buffer) rendered.
LoadAudio ==
    /\ audioBuffer = 0
    /\ \E d \in 1..MaxBufferTicks : audioBuffer' = d
    /\ UNCHANGED <<isPlaying, sourceNodeRef, startTimeRef, pausedAtRef, ctxTime,
                   sources, pendingEnded, playThrew, toggleLog>>
    /\ UNCHANGED exceptPlayVars

\* The audio clock advances by one tick; a playing source that reaches the
\* end of the buffer stops playing and its 'ended' event is queued.
ClockTick ==
    /\ audioBuffer # 0
    /\ ctxTime < MaxClock
    /\ ctxTime' = ctxTime + 1
    /\ LET done == {i \in SourceIds : sources[i].state = "playing"
                                      /\ EndTime(sources[i]) <= ctxTime + 1}
       IN  /\ sources' = [i \in SourceIds |->
                            IF i \in done THEN [sources[i] EXCEPT !.state = "finished"]
                            ELSE sources[i]]
           /\ pendingEnded' = pendingEnded \cup done
    /\ UNCHANGED <<audioBuffer, isPlaying, sourceNodeRef, startTimeRef, pausedAtRef,
                   playThrew, toggleLog>>
    /\ UNCHANGED exceptPlayVars

\* togglePlayback with isPlaying true (lines 545-549): stop the current
\* source, forget it, record the offset.
Pause ==
    /\ audioBuffer # 0
    /\ isPlaying
    /\ Len(toggleLog) < MaxToggles
    /\ LET stopped == IF sourceNodeRef # 0 /\ sources[sourceNodeRef].state = "playing"
                      THEN {sourceNodeRef} ELSE {}
       IN  /\ sources' = [i \in SourceIds |->
                            IF i \in stopped THEN [sources[i] EXCEPT !.state = "finished"]
                            ELSE sources[i]]
           /\ pendingEnded' = pendingEnded \cup stopped
    /\ sourceNodeRef' = 0
    /\ pausedAtRef' = ctxTime - startTimeRef
    /\ isPlaying' = FALSE
    /\ toggleLog' = Append(toggleLog,
                           [op |-> "pause", offset |-> ctxTime - startTimeRef, at |-> ctxTime])
    /\ UNCHANGED <<audioBuffer, startTimeRef, ctxTime, playThrew>>
    /\ UNCHANGED exceptPlayVars

\* togglePlayback with isPlaying false (lines 550-559): a fresh source,
\* started at the stored offset.  source.start(0, offset) throws a RangeError
\* for a negative offset, after startTimeRef was already written.
Play ==
    /\ audioBuffer # 0
    /\ ~isPlaying
    /\ Len(toggleLog) < MaxToggles
    /\ startTimeRef' = ctxTime - pausedAtRef
    /\ LET id == Len(toggleLog) + 1
       IN  IF pausedAtRef < 0
           THEN /\ playThrew' = TRUE
                /\ UNCHANGED <<sources, pendingEnded, sourceNodeRef, isPlaying>>
           ELSE /\ sources' = [sources EXCEPT ![id] = StartedSource(pausedAtRef, ctxTime)]
                /\ pendingEnded' = IF pausedAtRef >= audioBuffer
                                   THEN pendingEnded \cup {id} ELSE pendingEnded
                /\ sourceNodeRef' = id
                /\ isPlaying' = TRUE
                /\ UNCHANGED playThrew
    /\ toggleLog' = Append(toggleLog,
                           [op |-> "play", offset |-> pausedAtRef, at |-> ctxTime])
    /\ UNCHANGED <<audioBuffer, pausedAtRef, ctxTime>>
    /\ UNCHANGED exceptPlayVars

\* An onended handler of setIsPlaying(false) alone.
OnEnded_KeepOffset ==
    /\ \E id \in pendingEnded :
          /\ pendingEnded' = pendingEnded \ {id}
          /\ sources' = [sources EXCEPT ![id].state = "ended"]
    /\ isPlaying' = FALSE
    /\ UNCHANGED <<audioBuffer, sourceNodeRef, startTimeRef, pausedAtRef, ctxTime,
                   playThrew, toggleLog>>
    /\ UNCHANGED exceptPlayVars

\* source.onended (line 557), dispatched for a source that was stopped or
\* that reached the end of the buffer.
OnEnded ==
    /\ \E id \in pendingEnded :
          /\ pendingEnded' = pendingEnded \ {id}
          /\ sources' = [sources EXCEPT ![id].state = "ended"]
    /\ isPlaying' = FALSE
    /\ pausedAtRef' = 0
    /\ UNCHANGED <<audioBuffer, sourceNodeRef, startTimeRef, ctxTime, playThrew, toggleLog>>
    /\ UNCHANGED exceptPlayVars

PlayNext == LoadAudio \/ ClockTick \/ Pause \/ Play \/ OnEnded

\* The load effect run again for a changed project.audioData (lines 398-415):
\* the cleanup closes the old context, which silences its sources, and the
\* effect creates a new one, whose clock starts at 0, and decodes the new
\* audio; the refs and isPlaying are left as they are.  Whether a source of
\* a closed context still reports 'ended' is up to the browser.  The decode
\* is taken to settle before the next toggle.
ReplaceAudio ==
    /\ audioBuffer # 0
    /\ \E d \in 1..MaxBufferTicks : audioBuffer' = d
    /\ ctxTime' = 0
    /\ LET silenced == {i \in SourceIds : sources[i].state = "playing"}
       IN  /\ sources' = [i \in SourceIds |->
                            IF i \in silenced THEN [sources[i] EXCEPT !.state = "finished"]
                            ELSE sources[i]]
           /\ \E reported \in {{}, silenced} : pendingEnded' = pendingEnded \cup reported
    /\ UNCHANGED <<isPlaying, sourceNodeRef, startTimeRef, pausedAtRef, playThrew, toggleLog>>
    /\ UNCHANGED exceptPlayVars

ReplaceNext == LoadAudio \/ ClockTick \/ Pause \/ Play \/ OnEnded \/ ReplaceAudio

(***************************************************************************)
(* generateVideoBlob (mediaUtils.ts 206-362).                              *)
(*                                                                         *)
(* Time is audioCtx.currentTime - startTime in ticks of half a second, so  *)
(* that the trailing 0.5 s of line 339 is one tick.  The frame drawn by    *)
(* drawFrame is not modelled, only what drawFrame schedules and stops.     *)
(***************************************************************************)
TrailTicks == 1          \* audioBuffer.duration + 0.5
WebmVp9 == "video/webm; codecs=vp9"
Webm == "video/webm"

VidIdle ==
    /\ promise = "none"
    /\ settleCalls = 0
    /\ blobType = "none"
    /\ imgState = "none"
    /\ audioCtxState = "none"
    /\ vidDuration = 0
    /\ vidClock = 0
    /\ vidSource = "none"
    /\ recorder = "none"
    /\ recorderMime = "none"
    /\ dataEvent = FALSE
    /\ stopEvent = FALSE
    /\ chunks = 0
    /\ lastFrameAt = -1
    /\ stopCalls = 0
    /\ rafPending = FALSE
    /\ vidThrew = FALSE

\* Before the call.
VidInit == VidIdle

\* resolve(blob) or reject(error): only the first call settles the promise.
Settle(how) ==
    /\ promise' = IF promise = "pending" THEN how ELSE promise
    /\ settleCalls' = settleCalls + 1

\* recorder.stop(): throws InvalidStateError on an inactive recorder,
\* otherwise the recorder becomes inactive and a 'dataavailable' event with
\* the data gathered, then a 'stop' event, are queued.
RecorderStop ==
    IF recorder = "recording"
    THEN /\ recorder' = "inactive"
         /\ dataEvent' = TRUE
         /\ stopEvent' = TRUE
         /\ stopCalls' = stopCalls + 1
         /\ UNCHANGED vidThrew
    ELSE /\ vidThrew' = TRUE
         /\ stopCalls' = stopCalls + 1
         /\ UNCHANGED <<recorder, dataEvent, stopEvent>>

\* The executor up to img.src = imageUrl, with a 2D context (lines 211-236).
CallGenerateVideoBlob ==
    /\ promise = "none"
    /\ \E d \in 1..MaxVideoTicks : vidDuration' = d
    /\ promise' = "pending"
    /\ imgState' = "loading"
    /\ UNCHANGED <<settleCalls, blobType, audioCtxState, vidClock, vidSource, recorder,
                   recorderMime, dataEvent, stopEvent, chunks, lastFrameAt, stopCalls,
                   rafPending, vidThrew>>
    /\ UNCHANGED exceptVidVars

\* The executor when canvas.getContext('2d') returns null (lines 219-222).
CallWithoutCanvasContext ==
    /\ promise = "none"
    /\ \E d \in 1..MaxVideoTicks : vidDuration' = d
    /\ promise' = "rejected"
    /\ settleCalls' = settleCalls + 1
    /\ UNCHANGED <<blobType, imgState, audioCtxState, vidClock, vidSource, recorder,
                   recorderMime, dataEvent, stopEvent, chunks, lastFrameAt, stopCalls,
                   rafPending, vidThrew>>
    /\ UNCHANGED exceptVidVars

\* img.onerror (line 236).
ImgError ==
    /\ imgState = "loading"
    /\ imgState' = "error"
    /\ Settle("rejected")
    /\ UNCHANGED <<blobType, audioCtxState, vidDuration, vidClock, vidSource, recorder,
                   recorderMime, dataEvent, stopEvent, chunks, lastFrameAt, stopCalls,
                   rafPending, vidThrew>>
    /\ UNCHANGED exceptVidVars

\* img.onload, startRecording with the recorder constructed (lines 238-360):
\* the audio graph, the recorder, recorder.start(), source.start(0) and the
\* first drawFrame() at time 0, which schedules the next frame.
ImgLoadStartRecording ==
    /\ imgState = "loading"
    /\ imgState' = "loaded"
    /\ audioCtxState' = "running"
    /\ \E mime \in {WebmVp9, Webm} : recorderMime' = mime
    /\ recorder' = "recording"
    /\ vidSource' = "playing"
    /\ vidClock' = 0
    /\ lastFrameAt' = 0
    /\ rafPending' = (0 < vidDuration + TrailTicks)
    /\ UNCHANGED <<promise, settleCalls, blobType, vidDuration, dataEvent, stopEvent,
                   chunks, stopCalls, vidThrew>>
    /\ UNCHANGED exceptVidVars

\* img.onload, startRecording with new MediaRecorder(...) throwing (lines
\* 239-267): the audio context exists, the catch rejects and returns.
ImgLoadRecorderThrows ==
    /\ imgState = "loading"
    /\ imgState' = "loaded"
    /\ audioCtxState' = "running"
    /\ Settle("rejected")
    /\ UNCHANGED <<blobType, vidDuration, vidClock, vidSource, recorder, recorderMime,
                   dataEvent, stopEvent, chunks, lastFrameAt,
                   stopCalls, rafPending, vidThrew>>
    /\ UNCHANGED exceptVidVars

\* img.onload, startRecording with canvas.captureStream unavailable (lines
\* 239-246): the audio context exists, the TypeError of line 246 is outside
\* the try of line 255 and ends the handler; nothing settles the promise.
ImgLoadCaptureThrows ==
    /\ imgState = "loading"
    /\ imgState' = "loaded"
    /\ audioCtxState' = "running"
    /\ vidThrew' = TRUE
    /\ UNCHANGED <<promise, settleCalls, blobType, vidDuration, vidClock, vidSource,
                   recorder, recorderMime, dataEvent, stopEvent, chunks, lastFrameAt,
                   stopCalls, rafPending>>
    /\ UNCHANGED exceptVidVars

\* The clock of the running audio context advances by one tick; the source
\* reaches the end of the buffer at vidDuration and its 'ended' event is
\* queued.  Times past vidDuration + TrailTicks are not told apart.
VidClockTick ==
    /\ audioCtxState = "running"
    /\ vidSource # "none"
    /\ vidClock < vidDuration + TrailTicks
    /\ vidClock' = vidClock + 1
    /\ vidSource' = IF vidSource = "playing" /\ vidClock + 1 >= vidDuration
                    THEN "finished" ELSE vidSource
    /\ UNCHANGED <<promise, settleCalls, blobType, imgState, audioCtxState, vidDuration,
                   recorder, recorderMime, dataEvent, stopEvent, chunks, lastFrameAt, stopCalls,
                   rafPending, vidThrew>>
    /\ UNCHANGED exceptVidVars

\* A scheduled frame callback runs drawFrame (lines 293-348).
FrameCallback ==
    /\ rafPending
    /\ lastFrameAt' = vidClock
    /\ IF vidClock < vidDuration + TrailTicks
       THEN /\ rafPending' = TRUE
            /\ UNCHANGED <<recorder, dataEvent, stopEvent, stopCalls, vidThrew>>
       ELSE /\ rafPending' = FALSE
            /\ RecorderStop
    /\ UNCHANGED <<promise, settleCalls, blobType, imgState, audioCtxState, vidDuration,
                   vidClock, vidSource, recorderMime, chunks>>
    /\ UNCHANGED exceptVidVars

\* An onended handler without cancelAnimationFrame.
VidOnEnded_NoCancel ==
    /\ vidSource = "finished"
    /\ vidSource' = "ended"
    /\ IF recorder = "recording"
       THEN RecorderStop
       ELSE UNCHANGED <<recorder, dataEvent, stopEvent, stopCalls, vidThrew>>
    /\ UNCHANGED <<promise, settleCalls, blobType, imgState, audioCtxState, vidDuration,
                   vidClock, recorderMime, chunks, lastFrameAt, rafPending>>
    /\ UNCHANGED exceptVidVars

\* source.onended (lines 354-359): cancel the scheduled frame, stop the
\* recorder if it is recording.
VidOnEnded ==
    /\ vidSource = "finished"
    /\ vidSource' = "ended"
    /\ rafPending' = FALSE
    /\ IF recorder = "recording"
       THEN RecorderStop
       ELSE UNCHANGED <<recorder, dataEvent, stopEvent, stopCalls, vidThrew>>
    /\ UNCHANGED <<promise, settleCalls, blobType, imgState, audioCtxState, vidDuration,
                   vidClock, recorderMime, chunks, lastFrameAt>>
    /\ UNCHANGED exceptVidVars

\* recorder.ondataavailable (lines 269-271): the event carries the data
\* gathered since start, which may be empty; a non-empty blob is kept.
RecorderOnDataAvailable ==
    /\ dataEvent
    /\ dataEvent' = FALSE
    /\ \E size \in {0, 1} : chunks' = IF size > 0 THEN chunks + 1 ELSE chunks
    /\ UNCHANGED <<promise, settleCalls, blobType, imgState, audioCtxState, vidDuration,
                   vidClock, vidSource, recorder, recorderMime, stopEvent, lastFrameAt,
                   stopCalls, rafPending, vidThrew>>
    /\ UNCHANGED exceptVidVars

\* recorder.onstop (lines 273-277), dispatched after the final
\* 'dataavailable': the blob, audioCtx.close(), resolve(blob).
RecorderOnStop ==
    /\ stopEvent
    /\ ~dataEvent
    /\ stopEvent' = FALSE
    /\ blobType' = Webm
    /\ audioCtxState' = "closed"
    /\ Settle("resolved")
    /\ UNCHANGED <<imgState, vidDuration, vidClock, vidSource, recorder, recorderMime,
                   dataEvent, chunks, lastFrameAt, stopCalls, rafPending, vidThrew>>
    /\ UNCHANGED exceptVidVars

VidNext ==
    \/ CallGenerateVideoBlob
    \/ CallWithoutCanvasContext
    \/ ImgError
    \/ ImgLoadCaptureThrows
    \/ ImgLoadStartRecording
    \/ ImgLoadRecorderThrows
    \/ VidClockTick
    \/ FrameCallback
    \/ VidOnEnded
    \/ RecorderOnDataAvailable
    \/ RecorderOnStop

(***************************************************************************)
(* renderVideoViaServer (serverRender.ts 8-57).                            *)
(*                                                                         *)
(* A message is a sequence of words, so that message.includes('Failed to   *)
(* fetch') is a test for a contiguous run of words.  An error is a record  *)
(* of its name and message; hasMessage is false for a rejection value      *)
(* without a message property (the ProgressEvent of FileReader.onerror).   *)
(***************************************************************************)
MsgWords == {"Failed", "to", "fetch", "ffmpeg"}
FailedToFetch == <<"Failed", "to", "fetch">>

Err(name, message) == [kind |-> "threw", name |-> name, hasMessage |-> TRUE,
                       message |-> message]
Returned(value) == [kind |-> "returned", value |-> value]
NoOutcome == [kind |-> "none"]

\* The error of line 53 ("cannot connect to the Node.js server").
ServiceUnavailable == Err("Error", <<"Khong the ket noi den Server Node.js">>)
ServerError == <<"Server error">>                  \* the fallback of line 40
NoVideoData == <<"No video data received">>      \* line 47
\* What the platform throws or rejects with.
FetchFailed == Err("TypeError", FailedToFetch)
AllocationFailed == Err("RangeError", <<"Array buffer allocation failed">>)
ReaderFailed == [kind |-> "threw", name |-> "ProgressEvent", hasMessage |-> FALSE,
                 message |-> <<>>]
JsonSyntaxError == Err("SyntaxError", <<"Unexpected token">>)
NullPropertyRead == Err("TypeError", <<"Cannot read properties of null">>)
UndefinedIncludes == Err("TypeError", <<"Cannot read properties of undefined">>)

\* String.prototype.includes on word sequences.
Includes(msg, pattern) ==
    \E i \in 0..(Len(msg) - Len(pattern)) :
        SubSeq(msg, i + 1, i + Len(pattern)) = pattern

\* The catch of lines 50-56: what the call ends with for a caught error.
CatchBlock(error) ==
    IF ~error.hasMessage THEN UndefinedIncludes
    ELSE IF Includes(error.message, FailedToFetch) \/ error.name = "TypeError"
         THEN ServiceUnavailable
    ELSE error

\* The bodies a response can carry: no JSON at all, the JSON value null, or
\* an object with some of the fields error, success and videoData.
Messages == SeqsUpTo(MsgWords, MaxMsgLen)
Bodies ==
    {[kind |-> "notJson"], [kind |-> "unreadable"], [kind |-> "null"],
     [kind |-> "empty"], [kind |-> "video"]}
    \cup {[kind |-> "error", error |-> m] : m \in Messages}

\* Lines 38-48 on a response whose body was read: the value returned or the
\* error thrown inside the try.
HandleResponse(ok, body) ==
    IF body.kind = "notJson" THEN JsonSyntaxError
    ELSE IF body.kind = "unreadable" THEN FetchFailed
    ELSE IF body.kind = "null" THEN NullPropertyRead
    ELSE IF ~ok
         THEN IF body.kind = "error" /\ body.error # <<>>
              THEN Err("Error", body.error)
              ELSE Err("Error", ServerError)
    ELSE IF body.kind = "video" THEN Returned("videoData")
    ELSE Err("Error", NoVideoData)

SrvIdle ==
    /\ srvPc = "idle"
    /\ srvSubtitles = FALSE
    /\ srvSrt = FALSE
    /\ srvConnection = "none"
    /\ srvResponseOk = FALSE
    /\ srvBody = [kind |-> "none"]
    /\ srvOutcome = NoOutcome

\* The call with its arguments: subtitles or none.
SrvInit ==
    /\ srvPc = "ready"
    /\ srvSubtitles \in BOOLEAN
    /\ srvSrt = FALSE
    /\ srvConnection = "none"
    /\ srvResponseOk = FALSE
    /\ srvBody = [kind |-> "none"]
    /\ srvOutcome = NoOutcome

\* Lines 15-22: the WAV, its base64 form and the SRT text are ready.
PrepareRequest ==
    /\ srvPc = "ready"
    /\ srvSrt' = srvSubtitles
    /\ srvPc' = "fetching"
    /\ UNCHANGED <<srvSubtitles, srvConnection, srvResponseOk, srvBody, srvOutcome>>
    /\ UNCHANGED exceptSrvVars

\* Lines 15-16 failing: the ArrayBuffer of the WAV cannot be allocated, or
\* the FileReader of blobToBase64 reports an error.
PrepareAudioFails ==
    /\ srvPc = "ready"
    /\ \E e \in {AllocationFailed, ReaderFailed} : srvOutcome' = CatchBlock(e)
    /\ srvPc' = "done"
    /\ UNCHANGED <<srvSubtitles, srvSrt, srvConnection, srvResponseOk, srvBody>>
    /\ UNCHANGED exceptSrvVars

\* Line 26: the connection cannot be established and fetch rejects.
FetchRefused ==
    /\ srvPc = "fetching"
    /\ srvConnection' = "refused"
    /\ srvOutcome' = CatchBlock(FetchFailed)
    /\ srvPc' = "done"
    /\ UNCHANGED <<srvSubtitles, srvSrt, srvResponseOk, srvBody>>
    /\ UNCHANGED exceptSrvVars

\* Line 26: fetch resolves with the response of the service.
FetchResponds ==
    /\ srvPc = "fetching"
    /\ srvConnection' = "established"
    /\ srvResponseOk' \in BOOLEAN
    /\ srvBody' \in Bodies
    /\ srvPc' = "responded"
    /\ UNCHANGED <<srvSubtitles, srvSrt, srvOutcome>>
    /\ UNCHANGED exceptSrvVars

\* Lines 38-56: the response is read and the call returns or throws.
ReadResponse ==
    /\ srvPc = "responded"
    /\ LET r == HandleResponse(srvResponseOk, srvBody)
       IN  srvOutcome' = IF r.kind = "threw" THEN CatchBlock(r) ELSE r
    /\ srvPc' = "done"
    /\ UNCHANGED <<srvSubtitles, srvSrt, srvConnection, srvResponseOk, srvBody>>
    /\ UNCHANGED exceptSrvVars

SrvNext ==
    \/ PrepareRequest
    \/ PrepareAudioFails
    \/ FetchRefused
    \/ FetchResponds
    \/ ReadResponse

(***************************************************************************)
(* wrapText (mediaUtils.ts 184-201).                                       *)
(*                                                                         *)
(* ctx.measureText(s).width is the sum of the advance widths of the        *)
(* characters of s: 1 for "a" and for the space, WideWidth for "W".        *)
(***************************************************************************)
WrapAlphabet == {"a", "W", " "}

CharWidth(c) == IF c = "W" THEN WideWidth ELSE 1

RECURSIVE measureText(_)
measureText(s) == IF s = <<>> THEN 0 ELSE CharWidth(s[1]) + measureText(Tail(s))

\* text.split(' '): the runs between single spaces, empty runs included.
RECURSIVE Split(_)
Split(s) ==
    IF \A i \in 1..Len(s) : s[i] # " " THEN <<s>>
    ELSE LET k == CHOOSE i \in 1..Len(s) :
                      s[i] = " " /\ \A j \in 1..(i - 1) : s[j] # " "
         IN  <<SubSeq(s, 1, k - 1)>> \o Split(SubSeq(s, k + 1, Len(s)))

\* The test of line 192 that always passes.
Fits_Always(width, maxWidth) == TRUE

\* The test of line 192.
Fits(width, maxWidth) == width < maxWidth

\* The loop of lines 189-198 from word i on.
RECURSIVE WrapFrom(_, _, _, _, _)
WrapFrom(words, i, lines, currentLine, maxWidth) ==
    IF i > Len(words) THEN Append(lines, currentLine)
    ELSE LET word == words[i]
             width == measureText(currentLine \o <<" ">> \o word)
         IN  IF Fits(width, maxWidth)
             THEN WrapFrom(words, i + 1, lines, currentLine \o <<" ">> \o word, maxWidth)
             ELSE WrapFrom(words, i + 1, Append(lines, currentLine), word, maxWidth)

wrapText(text, maxWidth) ==
    LET words == Split(text)
    IN  WrapFrom(words, 2, <<>>, words[1], maxWidth)

WrapIdle ==
    /\ wrapInput = <<>>
    /\ wrapMaxWidth = 0
    /\ wrapLines = <<>>
    /\ wrapPc = "idle"

WrapInit ==
    /\ wrapInput \in SeqsUpTo(WrapAlphabet, MaxWrapLen)
    /\ wrapMaxWidth \in 1..MaxWrapWidth
    /\ wrapLines = <<>>
    /\ wrapPc = "ready"

CallWrapText ==
    /\ wrapPc = "ready"
    /\ wrapLines' = wrapText(wrapInput, wrapMaxWidth)
    /\ wrapPc' = "done"
    /\ UNCHANGED <<wrapInput, wrapMaxWidth>>
    /\ UNCHANGED exceptWrapVars

WrapNext == CallWrapText

(***************************************************************************)
(* The local export: App mounts ProjectWorkspace while the view is         *)
(* 'workspace' (App.tsx 172-177) and unmounts it on the way back to the    *)
(* dashboard; handleExportVideoCanvas (ProjectWorkspace.tsx 500-512) runs  *)
(* on a click of one of the two render buttons (lines 804, 807).  The      *)
(* project has an image and audio data.  A call of generateVideoBlob is    *)
(* not cancelled by an unmount and settles whenever its recording ends.    *)
(***************************************************************************)
\* The Button component: a button showing isLoading takes no click.
ButtonEnabled(isLoading, disabled) == ~isLoading /\ ~disabled

Pending(renders) == {i \in 1..Len(renders) : renders[i].state = "pending"}

ExpIdle ==
    /\ expMounted = FALSE
    /\ expInstance = 0
    /\ expAudioLoaded = FALSE
    /\ expLoadingVideo = FALSE
    /\ expRenders = <<>>

\* The application on the dashboard.
ExpInit == ExpIdle

\* handleOpenProject (App.tsx 75-80): a fresh component, its state at the
\* initial values of useState (ProjectWorkspace.tsx 375-390).
OpenProject ==
    /\ ~expMounted
    /\ expInstance < MaxMounts
    /\ expMounted' = TRUE
    /\ expInstance' = expInstance + 1
    /\ expAudioLoaded' = FALSE
    /\ expLoadingVideo' = FALSE
    /\ UNCHANGED expRenders
    /\ UNCHANGED exceptExpVars

\* The loadAudio effect (lines 398-415): setAudioBuffer(buffer).
ExpLoadAudio ==
    /\ expMounted
    /\ ~expAudioLoaded
    /\ expAudioLoaded' = TRUE
    /\ UNCHANGED <<expMounted, expInstance, expLoadingVideo, expRenders>>
    /\ UNCHANGED exceptExpVars

\* handleBackToDashboard (App.tsx 97-100): the component unmounts.
BackToDashboard ==
    /\ expMounted
    /\ expMounted' = FALSE
    /\ UNCHANGED <<expInstance, expAudioLoaded, expLoadingVideo, expRenders>>
    /\ UNCHANGED exceptExpVars

\* handleExportVideoCanvas up to its first await (lines 501-505).
StartExport ==
    IF ~expAudioLoaded
    THEN UNCHANGED <<expLoadingVideo, expRenders>>
    ELSE /\ expLoadingVideo' = TRUE
         /\ expRenders' = Append(expRenders, [inst |-> expInstance, state |-> "pending"])

\* A click on the render button.
ClickExportCanvas ==
    /\ expMounted
    /\ ButtonEnabled(expLoadingVideo, FALSE)
    /\ Len(expRenders) < MaxRenders
    /\ StartExport
    /\ UNCHANGED <<expMounted, expInstance, expAudioLoaded>>
    /\ UNCHANGED exceptExpVars

\* generateVideoBlob settles and handleExportVideoCanvas runs to its end
\* (lines 505-511): the finally clears loadingState.video of the component
\* that made the call, which does nothing once that component is unmounted.
RenderSettles ==
    /\ \E i \in Pending(expRenders) :
          /\ expRenders' = [expRenders EXCEPT ![i].state = "settled"]
          /\ expLoadingVideo' = IF expMounted /\ expRenders[i].inst = expInstance
                                THEN FALSE ELSE expLoadingVideo
    /\ UNCHANGED <<expMounted, expInstance, expAudioLoaded>>
    /\ UNCHANGED exceptExpVars

ExpNext ==
    \/ OpenProject
    \/ ExpLoadAudio
    \/ BackToDashboard
    \/ ClickExportCanvas
    \/ RenderSettles

(***************************************************************************)
(* The render server: app.post('/render') (part_003 45-115).               *)
(*                                                                         *)
(* A request is one that reached the handler, its JSON body parsed by      *)
(* express.json().  Each request has its own jobId (a version 4 UUID) and  *)
(* so its own job directory; requests interleave at await execAsync(cmd).  *)
(***************************************************************************)
JobIds == 1..MaxJobs

\* req.body: image and audio are absent, a data URL, or (image) a value
\* that is not a string; srt is absent or a text.
RequestBodies ==
    [image : {"missing", "dataUrl", "notString"},
     audio : {"missing", "dataUrl"},
     srt : BOOLEAN]

NoJob == [pc |-> "none", body |-> [image |-> "missing", audio |-> "missing", srt |-> FALSE],
          responses |-> <<>>, encoderRan |-> FALSE, outputFile |-> FALSE,
          timer |-> FALSE]

ErrorResponse(status) == [status |-> status, body |-> "error"]
SuccessResponse == [status |-> 200, body |-> "success"]

\* The test of line 54 on the image alone.
MissingAssets_ImageOnly(body) == body.image = "missing"

\* !image || !audio (line 54).
MissingAssets(body) == body.image = "missing" \/ body.audio = "missing"

\* writeBase64ToFile (lines 40-43, 70-71) throws on a value without
\* replace(), and when the file cannot be written.
WritesAssets(body, diskOk) ==
    body.image = "dataUrl" /\ body.audio = "dataUrl" /\ diskOk

RsIdle ==
    /\ rsTempDir = FALSE
    /\ rsJobs = [j \in JobIds |-> NoJob]
    /\ rsDirs = {}

\* The server started (lines 26-32): TEMP_DIR exists unless mkdirSync
\* failed, which is logged and ignored.
RsInit ==
    /\ rsTempDir \in BOOLEAN
    /\ rsJobs = [j \in JobIds |-> NoJob]
    /\ rsDirs = {}

\* The handler from the request to its first await or to its end (lines
\* 46-89, 102-114): the 400 of line 56, or the job directory and the
\* assets and then the encoder started, or an exception of mkdirSync or of
\* a write caught at line 102 and answered with 500.  The finally arms the
\* cleanup timer on every path that ends here.
ReceiveRender ==
    \E j \in JobIds : \E body \in RequestBodies : \E diskOk \in BOOLEAN :
        /\ rsJobs[j].pc = "none"
        /\ IF MissingAssets(body)
           THEN /\ rsJobs' = [rsJobs EXCEPT ![j] =
                       [@ EXCEPT !.pc = "responded", !.body = body, !.timer = TRUE,
                                 !.responses = Append(@, ErrorResponse(400))]]
                /\ UNCHANGED rsDirs
           ELSE IF ~rsTempDir
           THEN /\ rsJobs' = [rsJobs EXCEPT ![j] =
                       [@ EXCEPT !.pc = "responded", !.body = body, !.timer = TRUE,
                                 !.responses = Append(@, ErrorResponse(500))]]
                /\ UNCHANGED rsDirs
           ELSE /\ rsDirs' = rsDirs \cup {j}
                /\ IF WritesAssets(body, diskOk)
                   THEN rsJobs' = [rsJobs EXCEPT ![j] =
                            [@ EXCEPT !.pc = "encoding", !.body = body]]
                   ELSE rsJobs' = [rsJobs EXCEPT ![j] =
                            [@ EXCEPT !.pc = "responded", !.body = body, !.timer = TRUE,
                                      !.responses = Append(@, ErrorResponse(500))]]
        /\ UNCHANGED rsTempDir
        /\ UNCHANGED exceptRsVars

\* execAsync settles and the handler runs to its end (lines 89-114):
\* ffmpeg exited with 0 and left output.mp4, which is read and sent; or it
\* exited with 0 without the file, or failed, or the file cannot be read,
\* and the catch answers with 500.  The finally arms the cleanup timer.
EncoderExits ==
    \E j \in JobIds : \E exit \in {"output", "noOutput", "failed"} : \E readOk \in BOOLEAN :
        /\ rsJobs[j].pc = "encoding"
        /\ rsJobs' = [rsJobs EXCEPT ![j] =
               [@ EXCEPT !.pc = "responded", !.encoderRan = TRUE, !.timer = TRUE,
                         !.outputFile = (exit = "output"),
                         !.responses = Append(@, IF exit = "output" /\ readOk
                                                 THEN SuccessResponse
                                                 ELSE ErrorResponse(500))]]
        /\ UNCHANGED <<rsTempDir, rsDirs>>
        /\ UNCHANGED exceptRsVars

\* A cleanup that removes everything under TEMP_DIR.
Removed_All(dirs, j) == {}

\* fs.rmSync(jobDir, { recursive: true, force: true }) (line 110).
Removed(dirs, j) == dirs \ {j}

\* The timer of lines 107-113, two seconds after the handler ended.
CleanupTimer ==
    \E j \in JobIds :
        /\ rsJobs[j].timer
        /\ rsJobs' = [rsJobs EXCEPT ![j].timer = FALSE]
        /\ rsDirs' = IF j \in rsDirs THEN Removed(rsDirs, j) ELSE rsDirs
        /\ UNCHANGED rsTempDir
        /\ UNCHANGED exceptRsVars

RsNext ==
    \/ ReceiveRender
    \/ EncoderExits
    \/ CleanupTimer

(***************************************************************************)
(* calculateCost (costUtils.ts 5-49) over APP_SETTINGS.PRICING             *)
(* (settings.ts 28-53).                                                    *)
(*                                                                         *)
(* Prices are written in units of 0.0001 USD and costs in units of         *)
(* 10^-10 USD, in which every term of the sum is a whole number.           *)
(***************************************************************************)
TokenPrice(input, output) == [kind |-> "tokens", input |-> input, output |-> output]
CharPrice(per1kChars) == [kind |-> "per1kChars", per1kChars |-> per1kChars]
UnitPrice(perUnit) == [kind |-> "perUnit", perUnit |-> perUnit]
NoPrice == [kind |-> "none"]

\* APP_SETTINGS.PRICING[name], undefined for a name that is not a key.
PRICING(name) ==
    CASE name = "gemini-2.5-flash-lite" -> TokenPrice(375, 1500)
      [] name = "gemini-2.5-flash-lite-preview-09-2025" -> TokenPrice(375, 1500)
      [] name = "gemini-2.0-flash-lite" -> TokenPrice(375, 1500)
      [] name = "gemini-2.5-flash" -> TokenPrice(750, 3000)
      [] name = "gemini-2.5-flash-preview-09-2025" -> TokenPrice(750, 3000)
      [] name = "gemini-3-flash-preview" -> TokenPrice(750, 3000)
      [] name = "gemini-2.0-flash" -> TokenPrice(1000, 4000)
      [] name = "gemini-2.5-pro" -> TokenPrice(35000, 105000)
      [] name = "gemini-3-pro-preview" -> TokenPrice(35000, 105000)
      [] name = "gemini-2.5-flash-image" -> UnitPrice(400)
      [] name = "gemini-3-pro-image-preview" -> UnitPrice(800)
      [] name = "gemini-2.5-flash-preview-tts" -> CharPrice(40)
      [] name = "gemini-2.5-pro-preview-tts" -> CharPrice(80)
      [] name = "gemini-2.5-flash-native-audio-preview-12-2025" -> TokenPrice(750, 3000)
      [] OTHER -> NoPrice

\* (tokens / 1_000_000) * price, in units of 10^-10 USD.
TokenCost(tokens, price) == tokens * price
\* (estimatedChars / 1000) * per1kChars with estimatedChars = tokens * 4.
CharCost(tokens, per1kChars) == tokens * 4 * per1kChars * 1000
\* perUnit.
UnitCost(perUnit) == perUnit * 1000000

\* An image charged whatever the source, unless uploaded.
ChargesImage_UnlessUpload(imageSource) == imageSource # "upload"

\* imageSource === 'ai' (line 33).
ChargesImage(imageSource) == imageSource = "ai"

calculateCost(usage, models, imageSource, hasVideo) ==
    LET storyModelPrice == PRICING(models.storyModel)
        audioModelPrice == PRICING(models.audioModel)
        imagePrice == PRICING(models.imageModel)
        videoPrice == PRICING(models.videoModel)
        story == IF storyModelPrice.kind = "tokens"
                 THEN TokenCost(usage.story.promptTokens, storyModelPrice.input)
                      + TokenCost(usage.story.candidatesTokens, storyModelPrice.output)
                 ELSE 0
        audio == IF audioModelPrice.kind = "tokens"
                 THEN TokenCost(usage.audio.promptTokens, audioModelPrice.input)
                      + TokenCost(usage.audio.candidatesTokens, audioModelPrice.output)
                 ELSE IF audioModelPrice.kind = "per1kChars"
                 THEN CharCost(usage.audio.promptTokens, audioModelPrice.per1kChars)
                 ELSE 0
        image == IF ChargesImage(imageSource) /\ imagePrice.kind = "perUnit"
                 THEN UnitCost(imagePrice.perUnit) ELSE 0
        video == IF hasVideo /\ videoPrice.kind = "perUnit"
                 THEN UnitCost(videoPrice.perUnit) ELSE 0
    IN  story + audio + image + video

ImageSources == {"ai", "upload", "undefined"}
UsageStats == [promptTokens : 0..MaxTokens, candidatesTokens : 0..MaxTokens]
Usages == [story : UsageStats, audio : UsageStats]
\* The models of the selection lists and names without a price of the kind.
ModelConfigs ==
    [storyModel : {"gemini-2.5-flash", "gemini-2.5-pro", "other"},
     audioModel : {"gemini-2.5-flash-preview-tts",
                   "gemini-2.5-flash-native-audio-preview-12-2025", "other"},
     imageModel : {"gemini-2.5-flash-image", "gemini-3-pro-image-preview",
                   "gemini-2.5-flash", "other"},
     videoModel : {"veo-3.1-fast-generate-preview", "gemini-3-pro-image-preview"}]

CostIdle ==
    /\ costUsage = [story |-> [promptTokens |-> 0, candidatesTokens |-> 0],
                    audio |-> [promptTokens |-> 0, candidatesTokens |-> 0]]
    /\ costModels = [storyModel |-> "", audioModel |-> "", imageModel |-> "",
                     videoModel |-> ""]
    /\ costHasVideo = FALSE
    /\ costBy = [src \in ImageSources |-> -1]

CostInit ==
    /\ costUsage \in Usages
    /\ costModels \in ModelConfigs
    /\ costHasVideo \in BOOLEAN
    /\ costBy = [src \in ImageSources |-> -1]

\* calculateCost(usage, models, imageSource, hasVideo) for one imageSource.
CallCalculateCost ==
    \E src \in ImageSources :
        /\ costBy[src] = -1
        /\ costBy' = [costBy EXCEPT ![src] =
                         calculateCost(costUsage, costModels, src, costHasVideo)]
        /\ UNCHANGED <<costUsage, costModels, costHasVideo>>
        /\ UNCHANGED exceptCostVars

CostNext == CallCalculateCost

(***************************************************************************)
(* generateSRTString (mediaUtils.ts 167-182).                              *)
(*                                                                         *)
(* A string is a sequence of one-character strings.  The product           *)
(* seconds * 1000 is taken exactly; its floating-point rounding is not     *)
(* modelled.                                                               *)
(***************************************************************************)
MsPerSecond == 1000      \* seconds * 1000
MsPerDay == 86400000     \* the time of day of an ISO string wraps at 24 h
Digits == <<"0", "1", "2", "3", "4", "5", "6", "7", "8", "9">>

\* The decimal digits of n in exactly w places (the fields of toISOString).
RECURSIVE Padded(_, _)
Padded(n, w) ==
    IF w = 0 THEN <<>> ELSE Padded(n \div 10, w - 1) \o <<Digits[(n % 10) + 1]>>

\* `${index + 1}`: the decimal digits of a positive integer.
RECURSIVE Decimal(_)
Decimal(n) ==
    IF n < 10 THEN <<Digits[n + 1]>> ELSE Decimal(n \div 10) \o <<Digits[(n % 10) + 1]>>

\* new Date(0) with setMilliseconds(seconds * 1000): the time value is the
\* argument truncated toward zero.  t is a time scaled by scale.
TimeValue(t, scale) == TruncDiv(MsPerSecond * t, scale)

\* iso.substr(11, 8) + ',' + iso.substr(20, 3) of the ISO string of a time
\* value: the time of day in UTC, a negative value falling on the day before.
formatTime(t, scale) ==
    LET tod == TimeValue(t, scale) % MsPerDay
        secs == tod \div MsPerSecond
    IN  Padded(secs \div 3600, 2) \o <<":">> \o Padded((secs \div 60) % 60, 2)
        \o <<":">> \o Padded(secs % 60, 2) \o <<",">> \o Padded(tod % MsPerSecond, 3)

Arrow == <<" ", "-", "-", ">", " ">>

\* `${index + 1}\n${formatTime(chunk.start)} --> ${formatTime(chunk.end)}\n${chunk.text}\n`
SrtBlock(chunk, index, scale) ==
    Decimal(index) \o <<"\n">> \o formatTime(chunk.start, scale) \o Arrow
    \o formatTime(chunk.end, scale) \o <<"\n">> \o chunk.text \o <<"\n">>

\* blocks.join('\n')
RECURSIVE JoinFrom(_, _)
JoinFrom(blocks, i) ==
    IF i > Len(blocks) THEN <<>>
    ELSE IF i = Len(blocks) THEN blocks[i]
    ELSE blocks[i] \o <<"\n">> \o JoinFrom(blocks, i + 1)

generateSRTString(s, d) ==
    LET cs == createSubtitles(s, d)
        scale == TimeScale(s)
    IN  JoinFrom([i \in 1..Len(cs) |-> SrtBlock(cs[i], i, scale)], 1)

SrtIdle ==
    /\ srtText = <<>>
    /\ srtDuration = 0
    /\ srtOut = <<>>
    /\ srtPc = "idle"

SrtInit ==
    /\ srtText \in Texts
    /\ srtDuration \in Durations
    /\ srtOut = <<>>
    /\ srtPc = "ready"

CallGenerateSRTString ==
    /\ srtPc = "ready"
    /\ srtOut' = generateSRTString(srtText, srtDuration)
    /\ srtPc' = "returned"
    /\ UNCHANGED <<srtText, srtDuration>>
    /\ UNCHANGED exceptSrtVars

SrtNext == CallGenerateSRTString

(***************************************************************************)
(* handleGenerateAudio and handleGenerateImage (ProjectWorkspace.tsx       *)
(* 455-483) with App.handleUpdateProject (App.tsx 92-95), for one open     *)
(* project.                                                                *)
(*                                                                         *)
(* A project is its two assets; 0 stands for undefined and the result of   *)
(* the call at position i of updCalls is i.  A handler is a closure of the *)
(* render in which the button was clicked: its `project` is the prop of    *)
(* that render.  The story and Veo handlers (lines 439-453, 485-498) write *)
(* the project in the same way.                                            *)
(***************************************************************************)
Kinds == {"audio", "image"}

NoAssets == [audioData |-> 0, imageUrl |-> 0]

PendingCalls == {i \in 1..Len(updCalls) : updCalls[i].state = "pending"}

UpdIdle ==
    /\ updCurrentProject = NoAssets
    /\ updProjects = NoAssets
    /\ updLoadingState = [k \in Kinds |-> FALSE]
    /\ updCalls = <<>>

\* The workspace open on a project without assets.
UpdInit == UpdIdle

\* A click on 'Tạo Giọng Đọc' or 'Tạo Ảnh AI' (lines 732, 756): the handler
\* runs up to its await with the project of the current render.
ClickGenerate ==
    /\ Len(updCalls) < MaxGenerations
    /\ \E k \in Kinds :
          /\ ButtonEnabled(updLoadingState[k], FALSE)
          /\ updLoadingState' = [updLoadingState EXCEPT ![k] = TRUE]
          /\ updCalls' = Append(updCalls,
                                [kind |-> k, project |-> updCurrentProject,
                                 state |-> "pending", during |-> PendingCalls])
    /\ UNCHANGED <<updCurrentProject, updProjects>>
    /\ UNCHANGED exceptUpdVars

\* onUpdateProject({...project, audioData | imageUrl: result, ...}) with the
\* project the handler was created with.
UpdatedProject(i) ==
    IF updCalls[i].kind = "audio"
    THEN [updCalls[i].project EXCEPT !.audioData = i]
    ELSE [updCalls[i].project EXCEPT !.imageUrl = i]

\* The service call resolves: the handler passes the updated project to
\* handleUpdateProject, which stores it whole, and clears its flag.
GenerationResolves ==
    \E i \in PendingCalls :
        /\ updCurrentProject' = UpdatedProject(i)
        /\ updProjects' = UpdatedProject(i)
        /\ updLoadingState' = [updLoadingState EXCEPT ![updCalls[i].kind] = FALSE]
        /\ updCalls' = [updCalls EXCEPT ![i].state = "resolved"]
        /\ UNCHANGED exceptUpdVars

\* The service call rejects: alert, and the flag is cleared.
GenerationRejects ==
    \E i \in PendingCalls :
        /\ updLoadingState' = [updLoadingState EXCEPT ![updCalls[i].kind] = FALSE]
        /\ updCalls' = [updCalls EXCEPT ![i].state = "rejected"]
        /\ UNCHANGED <<updCurrentProject, updProjects>>
        /\ UNCHANGED exceptUpdVars

UpdNext == ClickGenerate \/ GenerationResolves \/ GenerationRejects

(***************************************************************************)
(* The specifications.                                                     *)
(***************************************************************************)
InitSubtitles == SubInit /\ PcmIdle /\ PlayIdle /\ VidIdle /\ SrvIdle /\ WrapIdle /\ ExpIdle /\ RsIdle /\ CostIdle /\ SrtIdle /\ UpdIdle
SpecSubtitles == InitSubtitles /\ [][SubNext]_vars

InitPcm == PcmInit /\ SubIdle /\ PlayIdle /\ VidIdle /\ SrvIdle /\ WrapIdle /\ ExpIdle /\ RsIdle /\ CostIdle /\ SrtIdle /\ UpdIdle
SpecPcm == InitPcm /\ [][PcmNext]_vars

InitPlayback == PlayInit /\ SubIdle /\ PcmIdle /\ VidIdle /\ SrvIdle /\ WrapIdle /\ ExpIdle /\ RsIdle /\ CostIdle /\ SrtIdle /\ UpdIdle
SpecPlayback == InitPlayback /\ [][PlayNext]_vars

\* The playback controller with the narration audio replaced while the
\* workspace is open.
SpecReplace == InitPlayback /\ [][ReplaceNext]_vars

\* The frame callbacks, the audio clock and the 'ended' and 'stop' events are
\* delivered by the browser as long as they are due.
InitVideo == VidInit /\ SubIdle /\ PcmIdle /\ PlayIdle /\ SrvIdle /\ WrapIdle /\ ExpIdle /\ RsIdle /\ CostIdle /\ SrtIdle /\ UpdIdle
SpecVideo ==
    /\ InitVideo
    /\ [][VidNext]_vars
    /\ WF_vars(VidClockTick)
    /\ WF_vars(FrameCallback)
    /\ WF_vars(VidOnEnded)
    /\ WF_vars(RecorderOnDataAvailable)
    /\ WF_vars(RecorderOnStop)

InitWav == WavInit /\ SubIdle /\ PlayIdle /\ VidIdle /\ SrvIdle /\ WrapIdle /\ ExpIdle /\ RsIdle /\ CostIdle /\ SrtIdle /\ UpdIdle
SpecWav == InitWav /\ [][WavNext]_vars

InitWrap == WrapInit /\ SubIdle /\ PcmIdle /\ PlayIdle /\ VidIdle /\ SrvIdle /\ ExpIdle /\ RsIdle /\ CostIdle /\ SrtIdle /\ UpdIdle
SpecWrap == InitWrap /\ [][WrapNext]_vars

InitExport == ExpInit /\ SubIdle /\ PcmIdle /\ PlayIdle /\ VidIdle /\ SrvIdle /\ WrapIdle /\ RsIdle /\ CostIdle /\ SrtIdle /\ UpdIdle
SpecExport == InitExport /\ [][ExpNext]_vars

\* The render server with the encoder terminating and the timers firing.
InitRender == RsInit /\ SubIdle /\ PcmIdle /\ PlayIdle /\ VidIdle /\ SrvIdle /\ WrapIdle /\ ExpIdle /\ CostIdle /\ SrtIdle /\ UpdIdle
SpecRender == InitRender /\ [][RsNext]_vars /\ WF_vars(EncoderExits) /\ WF_vars(CleanupTimer)

InitCost == CostInit /\ SubIdle /\ PcmIdle /\ PlayIdle /\ VidIdle /\ SrvIdle /\ WrapIdle /\ ExpIdle /\ RsIdle /\ SrtIdle /\ UpdIdle
SpecCost == InitCost /\ [][CostNext]_vars

InitSrt == SrtInit /\ SubIdle /\ PcmIdle /\ PlayIdle /\ VidIdle /\ SrvIdle /\ WrapIdle /\ ExpIdle /\ RsIdle /\ CostIdle /\ UpdIdle
SpecSrt == InitSrt /\ [][SrtNext]_vars

InitUpdate == UpdInit /\ SubIdle /\ PcmIdle /\ PlayIdle /\ VidIdle /\ SrvIdle /\ WrapIdle /\ ExpIdle /\ RsIdle /\ CostIdle /\ SrtIdle
SpecUpdate == InitUpdate /\ [][UpdNext]_vars

InitServer == SrvInit /\ SubIdle /\ PcmIdle /\ PlayIdle /\ VidIdle /\ WrapIdle /\ ExpIdle /\ RsIdle /\ CostIdle /\ SrtIdle /\ UpdIdle
SpecServer == InitServer /\ [][SrvNext]_vars

(***************************************************************************)
(* Properties of the subtitle timing engine.                               *)
(***************************************************************************)
\* The duration of the call on the scale of the returned chunks.
DurationScaled == duration * totalWeight(fullText)

ChunksSorted(cs) ==
    \A i \in 1..(Len(cs) - 1) : cs[i].start <= cs[i + 1].start

ChunksDisjoint(cs) ==
    \A i \in 1..(Len(cs) - 1) : cs[i].end <= cs[i + 1].start

\* C3: for any non-empty text and any duration D > 0 the chunks returned by
\* createSubtitles are sorted by start, consecutive chunks do not overlap
\* (end[i] <= start[i+1]) and the last chunk ends at or before D.
C3_SortedDisjointWithinDuration ==
    (subPc = "returned" /\ fullText # <<>> /\ duration > 0) =>
        /\ ChunksSorted(subtitles)
        /\ ChunksDisjoint(subtitles)
        /\ subtitles # <<>> => Last(subtitles).end <= DurationScaled

\* A call with D > 0 that returned several chunks, one with the gap after a
\* sentence end and one with the fixed gap.
C3_Witness ==
    /\ subPc = "returned"
    /\ duration > 0
    /\ Len(subtitles) >= 2
    /\ \E i \in 1..Len(subtitles) : EndsSentence(subtitles[i].text)
    /\ \E i \in 1..Len(subtitles) : ~EndsSentence(subtitles[i].text)

\* C4: every chunk returned by createSubtitles for a duration D > 0 has
\* non-empty trimmed text, start >= 0 and end >= start.
C4_ChunkWellFormed ==
    (subPc = "returned" /\ duration > 0) =>
        \A i \in 1..Len(subtitles) :
            /\ subtitles[i].text # <<>>
            /\ Trim(subtitles[i].text) = subtitles[i].text
            /\ subtitles[i].start >= 0
            /\ subtitles[i].end >= subtitles[i].start

\* C5: for the degenerate inputs, the empty text with any duration or any
\* text with duration 0, createSubtitles returns the empty sequence.
C5_DegenerateInputsGiveNoChunks ==
    (subPc = "returned" /\ (fullText = <<>> \/ duration = 0)) =>
        subtitles = <<>>

\* The trailing gap of the only chunk of a one-segment text: the segment's
\* full duration (all of D) minus its visible duration, on the chunk's scale.
TrailingGap(cs, d, W) == d * W - (cs[1].end - cs[1].start)

\* The text with its last character replaced by a comma.
WithComma(s) == [s EXCEPT ![Len(s)] = ","]

\* C6: of two one-segment texts of equal length timed at the same D > 0,
\* the one ending in '.' has a strictly larger trailing gap than the one
\* ending in ','.  The gaps are fractions over the two texts' own scales
\* and are compared by cross-multiplication.
C6_PeriodGapLargerThanCommaGap ==
    (/\ subPc = "returned"
     /\ duration > 0
     /\ Len(fullText) >= 2
     /\ fullText[1] \notin Delimiters
     /\ Last(fullText) = "."
     /\ Segments(fullText) = <<fullText>>
     /\ Segments(WithComma(fullText)) = <<WithComma(fullText)>>) =>
        LET Wp == totalWeight(fullText)
            Wc == totalWeight(WithComma(fullText))
            gapPeriod == TrailingGap(subtitles, duration, Wp)
            gapComma == TrailingGap(createSubtitles(WithComma(fullText), duration),
                                    duration, Wc)
        IN  gapPeriod * Wc > gapComma * Wp

(***************************************************************************)
(* Properties of the decoder and the WAV encoder.                          *)
(***************************************************************************)
Abs(x) == IF x < 0 THEN 0 - x ELSE x

\* C7: decodeAudio followed by audioBufferToWav yields, for every sequence of
\* signed 16-bit PCM samples, as many 16-bit samples, each differing from the
\* source sample by at most 1.
C7_RoundTripWithinOneStep ==
    (pcmPc = "encoded" /\ pcmBytes = PayloadOf(pcmSource)) =>
        /\ Len(WavSamples(wavOut)) = Len(pcmSource)
        /\ \A i \in 1..Len(pcmSource) :
               Abs(WavSamples(wavOut)[i] - pcmSource[i]) <= 1

\* A round trip of the largest and the smallest sample, in which the largest
\* came back one step lower.
C7_Witness ==
    /\ pcmPc = "encoded"
    /\ pcmSource = <<Int16Max, Int16Min>>
    /\ WavSamples(wavOut) = <<Int16Max - 1, Int16Min>>

(***************************************************************************)
(* Properties of the playback controller.                                  *)
(***************************************************************************)
\* C1: in a sequence play, pause, play from the initial state, with the audio
\* clock advancing by d (0 < d < buffer duration) between the first play and
\* the pause, the second play does not throw and starts its source at the
\* offset d recorded at the pause, however the 'ended' event of the source
\* stopped by the pause interleaves with the calls.
C1_ResumeAtPausedOffset ==
    (/\ Len(toggleLog) >= 3
     /\ toggleLog[1].op = "play"
     /\ toggleLog[2].op = "pause"
     /\ toggleLog[3].op = "play"
     /\ toggleLog[2].at - toggleLog[1].at > 0
     /\ toggleLog[2].at - toggleLog[1].at < audioBuffer) =>
        /\ ~playThrew
        /\ toggleLog[2].offset = toggleLog[2].at - toggleLog[1].at
        /\ toggleLog[3].offset = toggleLog[2].offset

(***************************************************************************)
(* Properties of the client-side encode pipeline.                          *)
(***************************************************************************)
\* C2: generateVideoBlob never hangs: once the image has loaded, and with the
\* frame callbacks, the audio clock, the 'ended' event and the recorder's
\* events delivered fairly, the promise eventually resolves with a blob whose
\* declared type is video/webm.
C2_EventuallyResolvesWithWebm ==
    (imgState = "loaded") ~> (promise = "resolved" /\ blobType = Webm)

\* C10: whenever the promise of generateVideoBlob has settled, by a resolve or
\* by a reject, no audio context it created is still open.
C10_NoOpenContextOnceSettled ==
    promise \in {"resolved", "rejected"} => audioCtxState # "running"

(***************************************************************************)
(* Properties of the remote encode client.                                 *)
(***************************************************************************)
\* C8: when the connection succeeds and the service answers with a non-2xx
\* status and the body {error: m}, renderVideoViaServer fails with an error
\* whose message is exactly m, for every message m, and that error is not
\* the service-unavailable error.
C8_ServiceMessageVerbatim ==
    (/\ srvPc = "done"
     /\ srvConnection = "established"
     /\ ~srvResponseOk
     /\ srvBody.kind = "error") =>
        /\ srvOutcome.kind = "threw"
        /\ srvOutcome.message = srvBody.error
        /\ srvOutcome # ServiceUnavailable

\* C9: renderVideoViaServer ends with the service-unavailable error if and
\* only if the connection could not be established.
C9_UnavailableIffNotConnected ==
    srvPc = "done" =>
        (srvOutcome = ServiceUnavailable <=> srvConnection = "refused")

(***************************************************************************)
(* Properties of the failure paths of generateVideoBlob.                   *)
(***************************************************************************)
\* The 2D drawing surface could not be acquired: the executor ended before
\* the image was requested.
SurfaceUnavailable == promise # "none" /\ imgState = "none"
\* The image failed to load.
ImageFailed == imgState = "error"
\* The image loaded and startRecording ended without a recorder: the
\* capture or the recording primitive was unavailable.
RecorderUnavailable == imgState = "loaded" /\ recorder = "none"

\* C11: generateVideoBlob rejects, producing no blob, when the image fails
\* to load, when the recording or capture primitive is unavailable, and
\* when the 2D drawing surface cannot be acquired; in none of these cases
\* is the promise left pending.
C11_RejectsInEachFailureCase ==
    (SurfaceUnavailable \/ ImageFailed \/ RecorderUnavailable) =>
        (promise = "rejected" /\ blobType = "none")

(***************************************************************************)
(* Properties of decodeAudio.                                              *)
(***************************************************************************)
\* The payload has a whole number of 16-bit samples: it is the fixture's
\* samples and no stray byte.
EvenPayload == Len(pcmBytes) % 2 = 0

\* decodeAudio returned the mono 24000 Hz buffer of the fixture's samples.
DecodedFixture ==
    /\ pcmPc \in {"decoded", "encoded"}
    /\ audioBuf.ok
    /\ audioBuf.numberOfChannels = 1
    /\ audioBuf.sampleRate = 24000
    /\ audioBuf.length = Len(pcmBytes) \div 2
    /\ Len(audioBuf.channels[1]) = Len(pcmBytes) \div 2
    /\ \A i \in 1..Len(pcmSource) : audioBuf.channels[1][i] = pcmSource[i]

\* C12: decodeAudio fails, returning no buffer, for every payload whose
\* byte length is not a multiple of 2; for every even-length payload it
\* returns a mono 24000 Hz buffer of byteLength/2 samples, each the
\* little-endian 16-bit value over 32768.
C12_DecodeFailsOnOddReturnsOnEven ==
    pcmPc # "ready" =>
        IF EvenPayload THEN DecodedFixture
        ELSE pcmPc = "decodeFailed" /\ audioBuf = NoBuffer

(***************************************************************************)
(* Properties of wrapText.                                                 *)
(***************************************************************************)
\* lines.join(' ')
RECURSIVE JoinLines(_)
JoinLines(lines) ==
    IF lines = <<>> THEN <<>>
    ELSE IF Len(lines) = 1 THEN lines[1]
    ELSE lines[1] \o <<" ">> \o JoinLines(Tail(lines))

HasSpace(s) == \E i \in 1..Len(s) : s[i] = " "

\* The line holds a word, a run without a space, wider than maxWidth.
HoldsOverWideWord(line, maxWidth) ==
    \E a \in 1..Len(line) : \E b \in a..Len(line) :
        /\ ~HasSpace(SubSeq(line, a, b))
        /\ measureText(SubSeq(line, a, b)) > maxWidth

\* C13: wrapText never splits a word: the lines are runs of whole words of
\* the text in order (joined by spaces they give the text back), a word
\* wider than maxWidth is alone on its line, and a text of one over-wide
\* word gives exactly one line, that word.
C13_WordsNeverSplit ==
    wrapPc = "done" =>
        /\ Len(wrapLines) >= 1
        /\ JoinLines(wrapLines) = wrapInput
        /\ \A i \in 1..Len(wrapLines) :
              HoldsOverWideWord(wrapLines[i], wrapMaxWidth) => ~HasSpace(wrapLines[i])
        /\ (~HasSpace(wrapInput) /\ measureText(wrapInput) > wrapMaxWidth) =>
              wrapLines = <<wrapInput>>

\* An over-wide word alone on a line after a line of two words.
C13_Witness ==
    /\ wrapPc = "done"
    /\ Len(wrapLines) = 2
    /\ HasSpace(wrapLines[1])
    /\ wrapLines[1][1] # " "
    /\ Last(wrapLines[1]) # " "
    /\ ~HoldsOverWideWord(wrapLines[1], wrapMaxWidth)
    /\ HoldsOverWideWord(wrapLines[2], wrapMaxWidth)

(***************************************************************************)
(* Properties of audioBufferToWav.                                         *)
(***************************************************************************)
\* The 16-bit value of a sample n/32768: clamped to [-1, 1], scaled by
\* 32768 if negative and by 32767 otherwise, the fraction dropped.
ClampedScaled(n) ==
    IF n <= -32768 THEN -32768
    ELSE IF n >= 32768 THEN 32767
    ELSE IF n < 0 THEN n
    ELSE (n * 32767) \div 32768

\* C14: audioBufferToWav is total and size-consistent: for a buffer of C
\* channels and N frames the output has 44 + 2*C*N bytes, the RIFF size is
\* that length minus 8, the data size is 2*C*N, the block align is 2*C, the
\* format tag is 1, bits per sample is 16, and the samples are interleaved
\* in the order of the input channels.
C14_WavSizeConsistentInterleaved ==
    pcmPc = "encoded" =>
        LET C == audioBuf.numberOfChannels
            N == audioBuf.length
        IN  /\ wavOut.ok
            /\ wavOut.byteLength = 44 + 2 * C * N
            /\ 44 + Len(wavOut.data) = wavOut.byteLength
            /\ wavOut.riffSize = wavOut.byteLength - 8
            /\ wavOut.dataSize = 2 * C * N
            /\ wavOut.blockAlign = 2 * C
            /\ wavOut.numChannels = C
            /\ wavOut.formatTag = 1
            /\ wavOut.bitsPerSample = 16
            /\ \A pos \in 1..N : \A ch \in 1..C :
                   WavSamples(wavOut)[(pos - 1) * C + ch]
                       = ClampedScaled(audioBuf.channels[ch][pos])

\* A stereo buffer of two frames whose channels differ in every frame.
C14_Witness ==
    /\ pcmPc = "encoded"
    /\ audioBuf.numberOfChannels = 2
    /\ audioBuf.length = 2
    /\ \A pos \in 1..2 : ClampedScaled(audioBuf.channels[1][pos])
                            # ClampedScaled(audioBuf.channels[2][pos])
    /\ ClampedScaled(audioBuf.channels[1][2]) # ClampedScaled(audioBuf.channels[2][1])

\* C15: every sample is clamped to [-1, 1] and scaled by 32768 if negative
\* and by 32767 otherwise, so the 16-bit value written lies in
\* [-32768, 32767] and never wraps around, also for samples outside
\* [-1, 1]: a sample above 1 is written as 32767, one below -1 as -32768.
C15_QuantizationClampsWithoutWrap ==
    pcmPc = "encoded" =>
        \A k \in 1..Len(WavSamples(wavOut)) :
            LET C == audioBuf.numberOfChannels
                n == audioBuf.channels[((k - 1) % C) + 1][((k - 1) \div C) + 1]
                v == WavSamples(wavOut)[k]
            IN  /\ v \in -32768..32767
                /\ n >= 0 => v >= 0
                /\ n < 0 => v < 0
                /\ n > 32768 => v = 32767
                /\ n < -32768 => v = -32768
                /\ Quantize(n) = v % 65536
                /\ v = ClampedScaled(n)

\* A buffer with a sample above 1 and a sample below -1, encoded.
C15_Witness ==
    /\ pcmPc = "encoded"
    /\ audioBuf.numberOfChannels = 1
    /\ audioBuf.length = 2
    /\ audioBuf.channels[1][1] = 2 * PcmScale
    /\ audioBuf.channels[1][2] = 0 - 2 * PcmScale
    /\ WavSamples(wavOut) = <<32767, -32768>>

(***************************************************************************)
(* Natural completion of playback.                                         *)
(***************************************************************************)
\* The source the controller holds has reported its end: it was not stopped
\* by a pause (a pause forgets the source), it reached the end of the buffer.
CurrentSourceEnded ==
    sourceNodeRef # 0 /\ sources[sourceNodeRef].state = "ended"

\* C16: when the playing source reports that it reached the end of the
\* buffer, the controller is not playing and the stored offset is 0, and
\* the play that follows a completion starts at offset 0.
C16_NaturalCompletionRewinds ==
    /\ CurrentSourceEnded => (~isPlaying /\ pausedAtRef = 0)
    /\ \A i \in 1..(Len(toggleLog) - 1) :
          (toggleLog[i].op = "play" /\ toggleLog[i + 1].op = "play") =>
              toggleLog[i + 1].offset = 0

\* A source resumed at a positive offset played to the end of the buffer
\* and reported it, and the next play started from the beginning.
C16_Witness ==
    /\ Len(toggleLog) = 4
    /\ toggleLog[2].op = "pause"
    /\ toggleLog[3].op = "play"
    /\ toggleLog[3].offset > 0
    /\ toggleLog[4].op = "play"
    /\ toggleLog[4].offset = 0
    /\ toggleLog[4].at >= toggleLog[3].at + audioBuffer - toggleLog[3].offset
    /\ sources[3].state = "ended"

(***************************************************************************)
(* Properties of the local export.                                         *)
(***************************************************************************)
\* C17: at most one local render is in flight at any time: no second
\* generateVideoBlob is started while an earlier one has not settled,
\* whatever the user does.
C17_AtMostOneRenderInFlight == Cardinality(Pending(expRenders)) <= 1

(***************************************************************************)
(* Properties of the render server.                                        *)
(***************************************************************************)
\* What one request was answered with, once its handler ended.
AnsweredAsRequired(job) ==
    /\ Len(job.responses) = 1
    /\ LET r == job.responses[1]
       IN  IF job.body.image = "missing" \/ job.body.audio = "missing"
           THEN r.status = 400 /\ r.body = "error" /\ ~job.encoderRan
           ELSE IF r.body = "success"
           THEN r.status \in 200..299 /\ job.encoderRan /\ job.outputFile
           ELSE r.status \notin 200..299 /\ r.body = "error"

\* C19: every POST /render request receives exactly one response: 400 with
\* an error, the encoder not invoked, when image or audio is missing; the
\* success body {success: true, videoData} only when the encoder ran and
\* left an output file; a non-2xx status with {error} in every other case.
C19_ExactlyOneResponsePerRequest ==
    /\ [](\A j \in JobIds :
            /\ Len(rsJobs[j].responses) <= 1
            /\ rsJobs[j].pc = "responded" => AnsweredAsRequired(rsJobs[j]))
    /\ \A j \in JobIds :
          (rsJobs[j].pc # "none") ~> (Len(rsJobs[j].responses) = 1)

\* One request answered 400 for a missing audio, another answered with the
\* video after the encoder ran.
C19_Witness ==
    \E j, k \in JobIds :
        /\ rsJobs[j].pc = "responded"
        /\ rsJobs[j].body.image = "dataUrl"
        /\ rsJobs[j].body.audio = "missing"
        /\ rsJobs[j].responses = <<ErrorResponse(400)>>
        /\ rsJobs[k].pc = "responded"
        /\ rsJobs[k].encoderRan
        /\ rsJobs[k].responses = <<SuccessResponse>>

ConfiguredImagePrice(model) ==
    IF model = "gemini-2.5-flash-image" THEN 400000000
    ELSE IF model = "gemini-3-pro-image-preview" THEN 800000000
    ELSE 0

\* C21: calculateCost charges the image model's per-image price exactly
\* when imageSource is 'ai': for the same usage, models and hasVideo the
\* cost with 'upload' equals the cost with undefined and is lower than the
\* cost with 'ai' by exactly the configured per-unit image price.
C21_ImageChargedOnlyForAi ==
    (\A src \in ImageSources : costBy[src] # -1) =>
        /\ costBy["upload"] = costBy["undefined"]
        /\ costBy["ai"] - costBy["upload"] = ConfiguredImagePrice(costModels.imageModel)

\* The three costs of a project with story and audio usage, a priced image
\* model and a video, the AI image costing 0.04 USD more.
C21_Witness ==
    /\ \A src \in ImageSources : costBy[src] # -1
    /\ costModels.imageModel = "gemini-2.5-flash-image"
    /\ costHasVideo
    /\ costBy["upload"] > 800000000
    /\ costBy["ai"] = costBy["upload"] + 400000000

(***************************************************************************)
(* Properties of the end of a recording.                                   *)
(***************************************************************************)
\* C22: once the audio source has reported its natural end, no frame
\* callback remains scheduled and no further frame is drawn: the end
\* handler cancels the callback scheduled last, however frame callbacks
\* and the end event interleave.
C22_NoFrameAfterSourceEnded ==
    /\ [](vidSource = "ended" => ~rafPending)
    /\ [][vidSource = "ended" => lastFrameAt' = lastFrameAt]_vars

\* The source reported its end while the draw loop was still scheduling
\* itself (before audioDuration + 0.5 s), and the callback is cancelled.
C22_Witness ==
    /\ vidSource = "ended"
    /\ lastFrameAt >= 1
    /\ lastFrameAt < vidDuration + TrailTicks
    /\ vidClock > lastFrameAt
    /\ ~rafPending

\* C23: in every run of generateVideoBlob the promise is settled exactly
\* once, and the recorder's stop is requested exactly once on a successful
\* run and never on an inactive recorder, whichever of the two stop
\* conditions (the elapsed time in a frame callback, the audio end event)
\* fires first and also when the other fires afterwards.
C23_SettledOnceStoppedOnce ==
    /\ [](settleCalls <= 1)
    /\ [](promise = "resolved" => stopCalls = 1)
    /\ [][stopCalls' # stopCalls => recorder = "recording"]_vars
    /\ (promise = "pending") ~> (settleCalls = 1)

(***************************************************************************)
(* The active-subtitle lookup of drawFrame over the chunks.                *)
(***************************************************************************)
\* The chunks s with t >= s.start && t <= s.end (line 311).
ActiveAt(cs, t) == {i \in 1..Len(cs) : cs[i].start <= t /\ t <= cs[i].end}

\* The starts and ends of the chunks: two chunks that share a time share
\* the later of their starts.
Boundaries(cs) == {cs[i].start : i \in 1..Len(cs)} \cup {cs[i].end : i \in 1..Len(cs)}

\* C24: for every chunk sequence createSubtitles produces and every query
\* time t, at most one chunk has start <= t <= end.
C24_AtMostOneActiveChunk ==
    subPc = "returned" =>
        \A t \in Boundaries(subtitles) : Cardinality(ActiveAt(subtitles, t)) <= 1

(***************************************************************************)
(* The weight of a segment against the weighting rule as stated.           *)
(***************************************************************************)
\* The bonus of the stated rule for a segment as matched: the sentence rule
\* (an end in . ? ! or a newline anywhere, a terminating one included) is
\* tried first, the clause rule second.
StatedBonus(raw) ==
    LET t == Trim(raw)
    IN  IF Last(t) \in SentenceEnd \/ "\n" \in Range(raw) THEN END_WEIGHT
        ELSE IF Last(t) \in ClauseEnd THEN COMMA_WEIGHT
        ELSE 0

\* C25: the weight of every segment of the split step is its character
\* count plus 15 when it ends in . ? ! or holds a newline (this rule first,
\* a segment terminated by a newline included), plus 6 when it ends in , or
\* ; and plus 0 otherwise.
C25_WeightIsLengthPlusStatedBonus ==
    subPc = "returned" =>
        LET raw == RawSegments(fullText)
        IN  \A i \in 1..Len(raw) :
                Trim(raw[i]) # <<>> =>
                    getSegmentWeight(Trim(raw[i])) = Len(Trim(raw[i])) + StatedBonus(raw[i])

(***************************************************************************)
(* Properties of generateSRTString: the string is read back block by       *)
(* block and compared with the chunks it was written from.                 *)
(***************************************************************************)
IsDigit(c) == \E d \in 1..10 : Digits[d] = c
DigitValue(c) == (CHOOSE d \in 1..10 : Digits[d] = c) - 1

IsNumber(str) == str # <<>> /\ \A k \in 1..Len(str) : IsDigit(str[k])

RECURSIVE ReadNumber(_)
ReadNumber(str) ==
    IF str = <<>> THEN 0
    ELSE 10 * ReadNumber(SubSeq(str, 1, Len(str) - 1)) + DigitValue(Last(str))

\* hh:mm:ss,mmm
IsTimeField(f) ==
    /\ Len(f) = 12
    /\ f[3] = ":" /\ f[6] = ":" /\ f[9] = ","
    /\ \A k \in {1, 2, 4, 5, 7, 8, 10, 11, 12} : IsDigit(f[k])

\* The milliseconds a time field stands for.
ReadTimeField(f) ==
    ((ReadNumber(SubSeq(f, 1, 2)) * 60 + ReadNumber(SubSeq(f, 4, 5))) * 60
     + ReadNumber(SubSeq(f, 7, 8))) * MsPerSecond + ReadNumber(SubSeq(f, 10, 12))

Malformed == [ok |-> FALSE, blocks |-> <<>>]

\* Reads str from position p on as blocks "index, start --> end, text"
\* separated by blank lines, the text of block i being lens[i] characters.
RECURSIVE ReadBlocks(_, _, _, _)
ReadBlocks(str, p, lens, i) ==
    IF i > Len(lens) THEN (IF p = Len(str) + 1 THEN [ok |-> TRUE, blocks |-> <<>>] ELSE Malformed)
    ELSE
        LET e == RunEnd(str, p, {"\n"}, FALSE)          \* the end of the index line
            sep == IF i < Len(lens) THEN 1 ELSE 0
            last == e + 30 + lens[i] + 1 + sep
        IN  IF last > Len(str) THEN Malformed
            ELSE
                LET head == SubSeq(str, p, e - 1)
                    from == SubSeq(str, e + 1, e + 12)
                    to == SubSeq(str, e + 18, e + 29)
                    rest == ReadBlocks(str, last + 1, lens, i + 1)
                IN  IF /\ IsNumber(head)
                       /\ IsTimeField(from) /\ SubSeq(str, e + 13, e + 17) = Arrow /\ IsTimeField(to)
                       /\ str[e + 30] = "\n"
                       /\ str[e + 30 + lens[i] + 1] = "\n"
                       /\ (sep = 1 => str[last] = "\n")
                       /\ rest.ok
                    THEN [ok |-> TRUE,
                          blocks |-> <<[index |-> ReadNumber(head),
                                        start |-> ReadTimeField(from),
                                        end |-> ReadTimeField(to),
                                        text |-> SubSeq(str, e + 31, e + 30 + lens[i])]>>
                                     \o rest.blocks]
                    ELSE Malformed

SrtChunks == createSubtitles(srtText, srtDuration)
SrtRead == ReadBlocks(srtOut, 1, [i \in 1..Len(SrtChunks) |-> Len(SrtChunks[i].text)], 1)

\* C26: generateSRTString emits one block per chunk, in chunk order and
\* numbered 1..n, each block the index, the start and the end of the chunk
\* as hh:mm:ss,mmm with the start not after the end, and the text of the
\* chunk, the blocks separated by a blank line; for no chunks the string is
\* empty.
C26_OneWellFormedBlockPerChunk ==
    srtPc = "returned" =>
        /\ SrtRead.ok
        /\ Len(SrtRead.blocks) = Len(SrtChunks)
        /\ (SrtChunks = <<>> => srtOut = <<>>)
        /\ \A i \in 1..Len(SrtRead.blocks) :
               /\ SrtRead.blocks[i].index = i
               /\ SrtRead.blocks[i].text = SrtChunks[i].text
               /\ SrtRead.blocks[i].start = TimeValue(SrtChunks[i].start, TimeScale(srtText))
               /\ SrtRead.blocks[i].end = TimeValue(SrtChunks[i].end, TimeScale(srtText))
               /\ SrtRead.blocks[i].start <= SrtRead.blocks[i].end

(***************************************************************************)
(* The offset over a sequence of plays and pauses.                         *)
(***************************************************************************)
\* The calls so far are play, pause, play, pause, ...
AlternatingToggles ==
    \A i \in 1..Len(toggleLog) :
        toggleLog[i].op = (IF i % 2 = 1 THEN "play" ELSE "pause")

\* No source has played to the end of the buffer: each was stopped by the
\* pause that followed its play, or is still playing, before its end time.
NoNaturalCompletion ==
    \A i \in 1..Len(toggleLog) :
        toggleLog[i].op = "play" =>
            /\ sources[i].state # "none"
            /\ (IF i < Len(toggleLog) THEN toggleLog[i + 1].at ELSE ctxTime) < EndTime(sources[i])

\* The clock time spent playing up to the pause at position i of the log.
RECURSIVE PlayedUpTo(_)
PlayedUpTo(i) ==
    IF i < 2 THEN 0
    ELSE PlayedUpTo(i - 2) + (toggleLog[i].at - toggleLog[i - 1].at)

\* C27: over alternating play and pause calls with no natural completion,
\* the offset recorded at each pause is the total clock time spent playing
\* so far, so it does not decrease from one pause to the next.
C27_PauseOffsetAccumulates ==
    (AlternatingToggles /\ NoNaturalCompletion) =>
        \A i \in 1..Len(toggleLog) :
            toggleLog[i].op = "pause" =>
                /\ toggleLog[i].offset = PlayedUpTo(i)
                /\ (i > 2 => toggleLog[i].offset >= toggleLog[i - 2].offset)

(***************************************************************************)
(* Consistency of the playback controller with its sources.                *)
(***************************************************************************)
\* Source i was stopped by the pause that followed its play.
StoppedByPause(i) ==
    /\ i < Len(toggleLog)
    /\ toggleLog[i + 1].op = "pause"
    /\ toggleLog[i + 1].at < EndTime(sources[i])

PlayingSources == {i \in SourceIds : sources[i].state = "playing"}

\* A source that reached the end of the buffer and whose end notification
\* is still to be delivered.
FinishingSources ==
    {i \in SourceIds : sources[i].state = "finished" /\ i \in pendingEnded /\ ~StoppedByPause(i)}

\* C28: at most one source started by togglePlayback is live, and isPlaying
\* is true exactly when there is one, for every interleaving of the toggles
\* with the end notifications of the current and the earlier sources.  A
\* source counts as live while it plays; between the end of the buffer and
\* the delivery of its end notification it may count either way.
C28_OneLiveSourceIffPlaying ==
    /\ Cardinality(PlayingSources) <= 1
    /\ (PlayingSources # {} => isPlaying)
    /\ (isPlaying => (PlayingSources \cup FinishingSources) # {})

(***************************************************************************)
(* The range of the stored playback offset.                                *)
(***************************************************************************)
\* C29: the stored offset pausedAt is never negative and never exceeds the
\* duration of the buffer, also when the narration audio is replaced (the
\* load effect creates a new audio context) during playback and the user
\* then toggles playback.
C29_OffsetWithinBuffer ==
    audioBuffer # 0 => (0 <= pausedAtRef /\ pausedAtRef <= audioBuffer)

(***************************************************************************)
(* Concurrent asset generations.                                           *)
(***************************************************************************)
\* The last call of a kind that resolved, 0 if there is none.
LastResolved(k) ==
    LET done == {i \in 1..Len(updCalls) : updCalls[i].kind = k /\ updCalls[i].state = "resolved"}
    IN  IF done = {} THEN 0 ELSE CHOOSE i \in done : \A j \in done : j <= i

\* Two calls were in flight at the same time.
Overlapped(a, b) == a \in updCalls[b].during \/ b \in updCalls[a].during

\* C30: when an audio generation and an image generation were in flight at
\* the same time and both have completed, the stored project holds both
\* results: the later completion has not overwritten the field written by
\* the earlier one.
C30_NoLostUpdate ==
    LET a == LastResolved("audio")
        b == LastResolved("image")
    IN  (a # 0 /\ b # 0 /\ Overlapped(a, b)) =>
            /\ updCurrentProject.audioData = a /\ updCurrentProject.imageUrl = b
            /\ updProjects.audioData = a /\ updProjects.imageUrl = b

====
